---- MODULE Spec2Model ----
(***************************************************************************)
(* Model of the merlin-agent HTTP client (clients/http/http.go) and of the *)
(* OPAQUE authenticator (authenticators/opaque/opaque.go).                 *)
(*                                                                         *)
(* The agent loop is one sequential process whose position is pc; Set is   *)
(* called by other subsystems and may run between any two steps of the     *)
(* agent loop.  A Go panic (nil dereference, failed type assertion, index  *)
(* out of range) ends the process: pc = "panic".                           *)
(***************************************************************************)
EXTENDS Integers, Sequences, FiniteSets, TLC

VARIABLES
    AuthName,       \* Client.Authenticator.String(): "OPAQUE" or "none"
    Authenticator,  \* state of the Client.Authenticator object
    authenticated,  \* Client.authenticated
    Client,         \* Client.Client, the round-tripper (NoClient when nil)
    Protocol,       \* Client.Protocol
    URL,            \* Client.URL
    JWT,            \* Client.JWT
    secret,         \* Client.secret
    PaddingMax,     \* Client.PaddingMax
    Parrot,         \* Client.Parrot
    JA3,            \* Client.JA3
    currentURL,     \* Client.currentURL
    transformers,   \* Client.transformers
    pc,             \* position of the agent loop
    caller,         \* who called the running Send: "agent" or "auth"
    msg,            \* the message of the running Authenticate / Send
    done,           \* local variable authenticated of Client.Authenticate
    req,            \* the request handed to Client.Do
    resp,           \* what Client.Do returned
    ret,            \* what the last finished Send or Authenticate returned
    minted,         \* number of bootstrap JWTs minted so far
    expect,         \* history: the last request's Bearer token as its response
                    \* updates it, and what has happened since it was issued
    hist,           \* authenticator steps taken (recorded by SpecOpaque only)
    config,         \* the Config New was called with (NoConfig before the call)
    registry,       \* number of clients in the process-wide repository
    locked,         \* the client's sync.Mutex is held
    setting,        \* the call of Set that holds the mutex (SpecMutex only)
    pending,        \* history: the value of a Set("jwt") no request has carried
                    \* yet (SpecMutex only)
    sent,           \* history: the payload types of the messages handed to Do
                    \* (SpecHandshake only)
    pipe            \* the running Construct or Deconstruct: its loop index, the
                    \* value in hand, and the history of the calls it has made
                    \* of the stages (SpecPipeline only)

clientVars == <<AuthName, Authenticator, authenticated, Client, Protocol, URL,
                JWT, secret, PaddingMax, Parrot, JA3, currentURL, transformers>>
loopVars == <<pc, caller, msg, done, req, resp, ret>>
auxVars == <<config, registry, locked, setting, pending, sent, pipe>>
vars == <<clientVars, loopVars, minted, expect, hist, auxVars>>

----------------------------------------------------------------------------
(* Bounds *)

MaxMint == 2        \* bootstrap tokens minted in one behaviour
MaxHist == 4        \* authenticator steps recorded by SpecOpaque

----------------------------------------------------------------------------
(* Keys.  A key is known by who derived it and by its length in bytes. *)

\* sha256.Sum256([]byte(client.psk)): 32 bytes
PSKKey == [id |-> "sha256(psk)", len |-> 32]
\* []byte(a.opaque.Kex.SharedSecret.String()): the SIGMA shared secret, 64 bytes
SharedSecret == [id |-> "sigma", len |-> 64]
\* a nil key
NilKey == [id |-> "nil", len |-> 0]
\* a key neither side derived (a body encrypted under it deconstructs nowhere)
ForeignKey == [id |-> "foreign", len |-> 32]

----------------------------------------------------------------------------
(* Messages (messages.Base) and OPAQUE payloads (opaque.Opaque) *)

AgentID == "agent"
OtherID == "other"
ZeroID == "00000000"

NilPayload == [tag |-> "nil"]
\* opaque.Opaque{}: what the User* functions return beside an error
ZeroOpaque == [tag |-> "opaque", Type |-> "0", Payload |-> "nil"]
OtherPayload == [tag |-> "other"]       \* a payload that is not opaque.Opaque
Opaque(t, p) == [tag |-> "opaque", Type |-> t, Payload |-> p]

Base(id, t, p, tok) == [tag |-> "msg", ID |-> id, Type |-> t, Payload |-> p, Token |-> tok]
\* messages.Base{}: zero id, type 0, no payload, no token
EmptyBase == Base(ZeroID, "0", NilPayload, "")
\* message types of merlin-message the model tells apart: 0, OPAQUE, another one
OPAQUE == "OPAQUE"
IDLE == "IDLE"
CHECKIN == "CHECKIN"

\* the server's tokens
ServerToken == "server-jwt"

----------------------------------------------------------------------------
(* The OPAQUE authenticator: authenticators/opaque/opaque.go *)

\* *User: nil, or the PAKE artifacts of one user
NilUser == [tag |-> "nil"]
\* reg is set when the User is created; regComplete and auth are nil until
\* assigned; Kex is nil, a new key exchange without a shared secret, or a
\* completed one
User(rc, au, kex) == [tag |-> "user", regComplete |-> rc, auth |-> au, Kex |-> kex]

\* what one call returns, and the state it leaves; panic = the call did not return
Returned(a, out, authd, err) ==
    [a |-> a, out |-> out, authenticated |-> authd, err |-> err, panic |-> FALSE]
Panicked(a) ==
    [a |-> a, out |-> EmptyBase, authenticated |-> FALSE, err |-> FALSE, panic |-> TRUE]

\* New(id)
NewAuthenticator == [registered |-> FALSE, authenticated |-> FALSE, opaque |-> NilUser]

\* gopaque FromBytes: the bytes unmarshal or they do not
FromBytes(payload) == payload = "ok"

UserRegisterInit(user) ==
    LET u == IF user = NilUser THEN User(FALSE, FALSE, "nil") ELSE user
    IN  [out |-> Opaque("RegInit", "ok"), user |-> u, err |-> FALSE, panic |-> FALSE]

UserRegisterComplete(regInitResp, user) ==
    IF regInitResp.Type # "RegInit"
    THEN [out |-> ZeroOpaque, user |-> user, err |-> TRUE, panic |-> FALSE]
    ELSE IF user = NilUser
    THEN [out |-> ZeroOpaque, user |-> user, err |-> FALSE, panic |-> TRUE]
    ELSE IF ~user.regComplete /\ ~FromBytes(regInitResp.Payload)
    THEN [out |-> ZeroOpaque, user |-> user, err |-> TRUE, panic |-> FALSE]
    ELSE [out |-> Opaque("RegComplete", "ok"),
          user |-> [user EXCEPT !.regComplete = TRUE],
          err |-> FALSE, panic |-> FALSE]

\* UserAuthenticateInit that does not keep the UserAuth it creates
UserAuthenticateInitNoAuth(user) ==
    IF user = NilUser
    THEN [out |-> ZeroOpaque, user |-> user, err |-> FALSE, panic |-> TRUE]
    ELSE [out |-> Opaque("AuthInit", "ok"),
          user |-> [user EXCEPT !.Kex = "new"],
          err |-> FALSE, panic |-> FALSE]

UserAuthenticateInit(user) ==
    IF user = NilUser
    THEN [out |-> ZeroOpaque, user |-> user, err |-> FALSE, panic |-> TRUE]
    ELSE [out |-> Opaque("AuthInit", "ok"),
          user |-> [user EXCEPT !.Kex = "new", !.auth = TRUE],
          err |-> FALSE, panic |-> FALSE]

UserAuthenticateComplete(authInitResp, user) ==
    IF authInitResp.Type # "AuthInit"
    THEN [out |-> ZeroOpaque, user |-> user, err |-> TRUE, panic |-> FALSE]
    ELSE IF ~FromBytes(authInitResp.Payload)
    THEN [out |-> ZeroOpaque, user |-> user, err |-> TRUE, panic |-> FALSE]
    ELSE IF user = NilUser \/ ~user.auth
    THEN [out |-> ZeroOpaque, user |-> user, err |-> FALSE, panic |-> TRUE]
    ELSE [out |-> Opaque("AuthComplete", "ok"),
          user |-> [user EXCEPT !.Kex = "done"],
          err |-> FALSE, panic |-> FALSE]

\* the prelude without the check of line 68: ReRegister always wipes
PreludeAlwaysWipe(a, in) ==
    IF in.Type = OPAQUE /\ in.Payload # NilPayload
    THEN IF in.Payload.tag # "opaque"
         THEN [a |-> a, in |-> in, stop |-> FALSE, panic |-> TRUE]
         ELSE IF in.Payload.Type = "ReRegister"
         THEN [a |-> [a EXCEPT !.registered = FALSE, !.opaque = NilUser],
               in |-> in, stop |-> FALSE, panic |-> FALSE]
         ELSE IF in.Payload.Type = "ReAuthenticate"
         THEN [a |-> [a EXCEPT !.authenticated = FALSE],
               in |-> [in EXCEPT !.Payload = Opaque("RegComplete", "nil")],
               stop |-> FALSE, panic |-> FALSE]
         ELSE [a |-> a, in |-> in, stop |-> FALSE, panic |-> FALSE]
    ELSE [a |-> a, in |-> in, stop |-> FALSE, panic |-> FALSE]

\* lines 62-84: the ReRegister / ReAuthenticate prelude.  stop: the early return
Prelude(a, in) ==
    IF in.Type = OPAQUE /\ in.Payload # NilPayload
    THEN IF in.Payload.tag # "opaque"
         THEN [a |-> a, in |-> in, stop |-> FALSE, panic |-> TRUE]
         ELSE IF in.Payload.Type = "ReRegister"
         THEN IF ~a.registered
              THEN [a |-> a, in |-> in, stop |-> TRUE, panic |-> FALSE]
              ELSE [a |-> [a EXCEPT !.registered = FALSE, !.opaque = NilUser],
                    in |-> in, stop |-> FALSE, panic |-> FALSE]
         ELSE IF in.Payload.Type = "ReAuthenticate"
         THEN [a |-> [a EXCEPT !.authenticated = FALSE],
               in |-> [in EXCEPT !.Payload = Opaque("RegComplete", "nil")],
               stop |-> FALSE, panic |-> FALSE]
         ELSE [a |-> a, in |-> in, stop |-> FALSE, panic |-> FALSE]
    ELSE [a |-> a, in |-> in, stop |-> FALSE, panic |-> FALSE]

\* the switch without its ReRegister case (lines 141-145)
DispatchNoReRegister(a, in) ==
    LET out == Base(AgentID, OPAQUE, NilPayload, "")
        m == in.Payload
    IN  IF m.tag # "opaque" THEN Panicked(a)
        ELSE CASE m.Type = "RegInit" ->
                 LET r == UserRegisterComplete(m, a.opaque)
                 IN  IF r.panic THEN Panicked(a)
                     ELSE Returned([a EXCEPT !.opaque = r.user,
                                             !.registered = IF r.err THEN @ ELSE TRUE],
                                   [out EXCEPT !.Payload = r.out], FALSE, r.err)
             [] m.Type = "RegComplete" ->
                 LET r == UserAuthenticateInit(a.opaque)
                 IN  IF r.panic THEN Panicked(a)
                     ELSE Returned([a EXCEPT !.opaque = r.user],
                                   [out EXCEPT !.Payload = r.out], FALSE, r.err)
             [] m.Type = "AuthInit" ->
                 LET r == UserAuthenticateComplete(m, a.opaque)
                 IN  IF r.panic THEN Panicked(a)
                     ELSE Returned([a EXCEPT !.opaque = r.user,
                                             !.authenticated = IF r.err THEN @ ELSE TRUE],
                                   [out EXCEPT !.Payload = r.out], ~r.err, r.err)
             [] m.Type = "ReAuthenticate" ->
                 LET r == UserAuthenticateInit(a.opaque)
                 IN  IF r.panic THEN Panicked(a)
                     ELSE Returned([a EXCEPT !.opaque = r.user, !.authenticated = FALSE],
                                   [out EXCEPT !.Payload = r.out], FALSE, r.err)
             [] OTHER -> Returned(a, out, FALSE, FALSE)

\* lines 112-152: the switch on the OPAQUE message type
Dispatch(a, in) ==
    LET out == Base(AgentID, OPAQUE, NilPayload, "")
        m == in.Payload
    IN  IF m.tag # "opaque" THEN Panicked(a)
        ELSE CASE m.Type = "RegInit" ->
                 LET r == UserRegisterComplete(m, a.opaque)
                 IN  IF r.panic THEN Panicked(a)
                     ELSE Returned([a EXCEPT !.opaque = r.user,
                                             !.registered = IF r.err THEN @ ELSE TRUE],
                                   [out EXCEPT !.Payload = r.out], FALSE, r.err)
             [] m.Type = "RegComplete" ->
                 LET r == UserAuthenticateInit(a.opaque)
                 IN  IF r.panic THEN Panicked(a)
                     ELSE Returned([a EXCEPT !.opaque = r.user],
                                   [out EXCEPT !.Payload = r.out], FALSE, r.err)
             [] m.Type = "AuthInit" ->
                 LET r == UserAuthenticateComplete(m, a.opaque)
                 IN  IF r.panic THEN Panicked(a)
                     ELSE Returned([a EXCEPT !.opaque = r.user,
                                             !.authenticated = IF r.err THEN @ ELSE TRUE],
                                   [out EXCEPT !.Payload = r.out], ~r.err, r.err)
             [] m.Type = "ReRegister" ->
                 LET r == UserRegisterInit(NilUser)
                 IN  Returned([a EXCEPT !.registered = FALSE, !.opaque = r.user],
                              [out EXCEPT !.Payload = r.out], FALSE, r.err)
             [] m.Type = "ReAuthenticate" ->
                 LET r == UserAuthenticateInit(a.opaque)
                 IN  IF r.panic THEN Panicked(a)
                     ELSE Returned([a EXCEPT !.opaque = r.user, !.authenticated = FALSE],
                                   [out EXCEPT !.Payload = r.out], FALSE, r.err)
             [] OTHER -> Returned(a, out, FALSE, FALSE)

\* Authenticator.Authenticate(in)
OpaqueAuthenticate(a, in) ==
    LET p == Prelude(a, in)
        out == Base(AgentID, OPAQUE, NilPayload, "")
    IN  IF p.panic THEN Panicked(p.a)
        ELSE IF p.stop THEN Returned(p.a, EmptyBase, FALSE, FALSE)
        ELSE IF ~p.a.registered /\ p.in.Payload = NilPayload
        THEN LET r == UserRegisterInit(p.a.opaque)
             IN  Returned([p.a EXCEPT !.opaque = r.user],
                          [out EXCEPT !.Payload = r.out], FALSE, r.err)
        ELSE IF p.in.ID # AgentID THEN Returned(p.a, EmptyBase, FALSE, TRUE)
        ELSE IF p.in.Type # OPAQUE THEN Returned(p.a, out, FALSE, TRUE)
        ELSE Dispatch(p.a, p.in)

\* Secret() that looks at registered where line 157 looks at authenticated
OpaqueSecretWhenRegistered(a) ==
    IF ~a.registered THEN [key |-> NilKey, err |-> TRUE, panic |-> FALSE]
    ELSE IF a.opaque = NilUser \/ a.opaque.Kex # "done"
    THEN [key |-> NilKey, err |-> FALSE, panic |-> TRUE]
    ELSE [key |-> SharedSecret, err |-> FALSE, panic |-> FALSE]

\* Authenticator.Secret()
OpaqueSecret(a) ==
    IF ~a.authenticated THEN [key |-> NilKey, err |-> TRUE, panic |-> FALSE]
    ELSE IF a.opaque = NilUser \/ a.opaque.Kex # "done"
    THEN [key |-> NilKey, err |-> FALSE, panic |-> TRUE]
    ELSE [key |-> SharedSecret, err |-> FALSE, panic |-> FALSE]

----------------------------------------------------------------------------
(* Transform stages (package transformers) *)

\* data on the wire: a stage's output wraps its input; Garbage is bytes no
\* stage produced
Garbage == [tag |-> "garbage"]
Enc(stage, key, inner) == [tag |-> "enc", stage |-> stage, key |-> key, inner |-> inner]

\* the ten identifiers New recognises
StageNames == {"aes", "base64-byte", "base64-string", "gob-base", "gob-string",
               "hex-byte", "hex-string", "jwe", "rc4", "xor"}
\* authenticated encrypters: a wrong key is an error
Authenticated == {"aes", "jwe"}
\* stream ciphers: a wrong key yields other bytes and no error
Stream == {"rc4", "xor"}
\* encoders of bytes or text: no key
Keyless == {"base64-byte", "base64-string", "hex-byte", "hex-string", "gob-string"}
\* the key a stage binds into its output
StageKey(stage, key) == IF stage \in Authenticated \cup Stream THEN key ELSE NilKey

\* transform.Construct(value, key)
StageConstruct(stage, value, key) ==
    IF stage = "gob-base"
    THEN IF value.tag = "msg"
         THEN [data |-> Enc(stage, NilKey, value), err |-> FALSE]
         ELSE [data |-> Garbage, err |-> TRUE]
    ELSE IF value.tag = "msg"
         THEN [data |-> Garbage, err |-> TRUE]
         ELSE [data |-> Enc(stage, StageKey(stage, key), value), err |-> FALSE]

\* transform.Deconstruct(data, key)
StageDeconstruct(stage, data, key) ==
    IF stage \in Stream
    THEN IF data.tag = "enc" /\ data.stage = stage /\ data.key = key
         THEN [ret |-> data.inner, err |-> FALSE]
         ELSE [ret |-> Garbage, err |-> FALSE]
    ELSE IF data.tag = "enc" /\ data.stage = stage /\ data.key = StageKey(stage, key)
            /\ (stage = "gob-base" => data.inner.tag = "msg")
         THEN [ret |-> data.inner, err |-> FALSE]
         ELSE [ret |-> Garbage, err |-> TRUE]

----------------------------------------------------------------------------
(* Client.Construct and Client.Deconstruct *)

RECURSIVE ConstructFrom(_, _, _, _)
\* the loop of Construct at index i (1-based), value being msg or the data so far
ConstructFrom(ts, i, value, key) ==
    IF i = 0 THEN [data |-> value, err |-> FALSE]
    ELSE LET r == StageConstruct(ts[i], value, key)
         IN  IF r.err THEN [data |-> Garbage, err |-> TRUE]
             ELSE ConstructFrom(ts, i - 1, r.data, key)

\* Client.Construct(msg)
Construct(ts, m, key) == ConstructFrom(ts, Len(ts), m, key)

RECURSIVE DeconstructFromKeepSecret(_, _, _, _, _)
\* the loop of Deconstruct without lines 735-736: the PSK key opens the stage
\* but the client keeps its secret and its authenticated flag
DeconstructFromKeepSecret(ts, i, data, c, psk) ==
    IF i > Len(ts)
    THEN [msg |-> EmptyBase, err |-> TRUE, secret |-> c.secret, authenticated |-> c.authenticated]
    ELSE LET first == StageDeconstruct(ts[i], data, c.secret)
             second == StageDeconstruct(ts[i], data, psk)
             r == IF first.err THEN second ELSE first
         IN  IF r.err
             THEN [msg |-> EmptyBase, err |-> TRUE,
                   secret |-> c.secret, authenticated |-> c.authenticated]
             ELSE IF r.ret.tag = "msg"
             THEN [msg |-> r.ret, err |-> FALSE,
                   secret |-> c.secret, authenticated |-> c.authenticated]
             ELSE DeconstructFromKeepSecret(ts, i + 1, r.ret, c, psk)

RECURSIVE DeconstructFrom(_, _, _, _, _)
\* the loop of Deconstruct at index i; c is the client's secret and authenticated
\* flag as the loop has left them
DeconstructFrom(ts, i, data, c, psk) ==
    IF i > Len(ts)
    THEN [msg |-> EmptyBase, err |-> TRUE, secret |-> c.secret, authenticated |-> c.authenticated]
    ELSE LET first == StageDeconstruct(ts[i], data, c.secret)
             second == StageDeconstruct(ts[i], data, psk)
             r == IF first.err THEN second ELSE first
             c2 == IF first.err /\ ~second.err
                   THEN [secret |-> psk, authenticated |-> FALSE]
                   ELSE c
         IN  IF r.err
             THEN [msg |-> EmptyBase, err |-> TRUE,
                   secret |-> c.secret, authenticated |-> c.authenticated]
             ELSE IF r.ret.tag = "msg"
             THEN [msg |-> r.ret, err |-> FALSE,
                   secret |-> c2.secret, authenticated |-> c2.authenticated]
             ELSE DeconstructFrom(ts, i + 1, r.ret, c2, psk)

\* Client.Deconstruct(data)
Deconstruct(ts, data, sec, authd) ==
    DeconstructFrom(ts, 1, data, [secret |-> sec, authenticated |-> authd], PSKKey)

----------------------------------------------------------------------------
(* The transport factory: getClient *)

\* *http.Client: nil, or a client around one transport.  used: a request has
\* been issued through it (it holds connection state)
NoClient == [tag |-> "nil"]
HTTPClient(transport, proxy, fingerprint) ==
    [tag |-> "client", transport |-> transport, proxy |-> proxy,
     fingerprint |-> fingerprint, used |-> FALSE]

\* strings url.Parse, utls.NewTransportFromJA3Insecure and
\* utls.NewTransportFromParrotInsecure reject
BadURL == "%zz"
BadJA3 == "not-a-ja3"
BadParrot == "not-a-browser"

getClient(protocol, proxyURL, ja3, parrot) ==
    IF proxyURL = BadURL THEN [client |-> NoClient, err |-> TRUE]
    ELSE IF ja3 # ""
    THEN IF ja3 = BadJA3 THEN [client |-> NoClient, err |-> TRUE]
         ELSE [client |-> HTTPClient("utls-ja3", proxyURL, ja3), err |-> FALSE]
    ELSE IF parrot # ""
    THEN IF parrot = BadParrot THEN [client |-> NoClient, err |-> TRUE]
         ELSE [client |-> HTTPClient("utls-parrot", proxyURL, parrot), err |-> FALSE]
    ELSE IF protocol \in {"http3", "h2", "h2c"}
    THEN [client |-> HTTPClient(protocol, "", ""), err |-> FALSE]
    ELSE IF protocol \in {"https", "http"}
    THEN [client |-> HTTPClient(protocol, IF proxyURL = "" THEN "environment" ELSE proxyURL, ""),
          err |-> FALSE]
    ELSE [client |-> NoClient, err |-> TRUE]

----------------------------------------------------------------------------
(* Bootstrap tokens: getJWT *)

\* the n-th token minted: its claims carry the time of minting, so no two are equal
BootstrapJWT(n) == "bootstrap-jwt-" \o ToString(n)

----------------------------------------------------------------------------
(* What the network can answer to one request *)

\* err.Error() of a failed Do, as the phrases it is made of
ErrorTexts == {
    <<"Post: ", "Application error 0x0">>,
    <<"NO_ERROR: Handshake did not complete in time">>,
    <<"timeout: ", "NO_ERROR: No recent network activity", " (local)">>,
    <<"dial tcp: connection refused">> }
\* strings.Contains(text, phrase)
Contains(text, phrase) == \E i \in 1..Len(text) : text[i] = phrase

\* strings.ToLower on the header elements and identifiers the model uses
ToLower(v) ==
    CASE v = "Application/Octet-Stream" -> "application/octet-stream"
      [] v = " Application/Octet-Stream" -> " application/octet-stream"
      [] v = "JWE" -> "jwe"
      [] v = "Gob-Base" -> "gob-base"
      [] v = "OPAQUE" -> "opaque"
      [] OTHER -> v

\* Content-Type values, as strings.Split(contentType, ",") returns them
ContentTypes == {
    <<"">>,
    <<"application/octet-stream">>,
    <<"text/html">> }

\* the loop of lines 524-529
RECURSIVE IsOctetFrom(_, _)
IsOctetFrom(elems, i) ==
    IF i > Len(elems) THEN FALSE
    ELSE ToLower(elems[i]) = "application/octet-stream" \/ IsOctetFrom(elems, i + 1)
isOctet(elems) == IsOctetFrom(elems, 1)

TransportError(text) == [kind |-> "error", text |-> text]
Response(status, ct, cl, body, readOK) ==
    [kind |-> "response", StatusCode |-> status, ContentType |-> ct,
     ContentLength |-> cl, Body |-> body, readOK |-> readOK]

\* messages a server puts in a response body
OpaqueReplies == {"RegInit", "RegComplete", "AuthInit", "ReRegister", "ReAuthenticate"}
ServerMessages ==
    {Base(AgentID, OPAQUE, Opaque(t, "ok"), "") : t \in OpaqueReplies}
    \cup {Base(AgentID, OPAQUE, Opaque("RegInit", "bad"), ""),
          Base(OtherID, OPAQUE, Opaque("RegInit", "ok"), ""),
          Base(AgentID, IDLE, NilPayload, ServerToken),
          Base(AgentID, IDLE, NilPayload, "")}

\* keys a server may construct a body under
ServerKeys == {PSKKey, SharedSecret, ForeignKey}

\* a body whose outer stages are sound but whose innermost content is not a
\* message: the stages ts[1..n-1] applied to Garbage
RECURSIVE Wrap(_, _, _, _)
Wrap(ts, i, value, key) ==
    IF i = 0 THEN value
    ELSE Wrap(ts, i - 1, Enc(ts[i], StageKey(ts[i], key), value), key)
Truncated(ts, key) == Wrap(ts, Len(ts) - 1, Garbage, key)

Bodies(ts) ==
    {Construct(ts, m, k).data : m \in ServerMessages, k \in {PSKKey, SharedSecret}}
    \cup {Truncated(ts, k) : k \in ServerKeys}

Responses(ts) ==
    {TransportError(t) : t \in ErrorTexts}
    \cup {Response(401, <<"">>, 0, Garbage, TRUE), Response(500, <<"">>, 0, Garbage, TRUE)}
    \cup {Response(200, <<"application/octet-stream">>, 1, b, TRUE) : b \in Bodies(ts)}
    \cup {Response(200, ct, 1, Garbage, TRUE) : ct \in ContentTypes}
    \cup {Response(200, <<"application/octet-stream">>, 0, Garbage, TRUE),
          Response(200, <<"application/octet-stream">>, 1, Garbage, FALSE)}

----------------------------------------------------------------------------
(* The "none" authenticator (package authenticators/none) *)

NoneAuthenticate(a, in) == Returned(a, Base(AgentID, CHECKIN, NilPayload, ""), TRUE, FALSE)
NoneSecret(a) == [key |-> NilKey, err |-> FALSE, panic |-> FALSE]

\* client.Authenticator.Authenticate(msg) and client.Authenticator.Secret()
AuthenticatorAuthenticate(name, a, in) ==
    IF name = "OPAQUE" THEN OpaqueAuthenticate(a, in) ELSE NoneAuthenticate(a, in)
AuthenticatorSecret(name, a) ==
    IF name = "OPAQUE" THEN OpaqueSecret(a) ELSE NoneSecret(a)

----------------------------------------------------------------------------
(* Configurations New is given *)

\* config.Proxy
Proxy == "http://proxy:8080"
Protocols == {"http3", "https"}
AuthPackages == {"OPAQUE", "none"}
Pipelines == {<<"jwe", "gob-base">>}
ConfigURLs == {<<"https://h0/a", "https://h1/a", "https://h2/a">>}

NoRequest == [tag |-> "none"]
NoResponse == [kind |-> "none"]
NoReturn == [op |-> "none", err |-> FALSE, msgs |-> <<>>]
\* no request issued yet, or a Set has run since the last one was
NoExpect == [bearer |-> "", valid |-> FALSE, auth |-> FALSE]

\* no call of Set in progress
NoCall == <<>>

\* no Construct or Deconstruct in progress
NoPipe == [op |-> "none"]

\* the Config of a client: the authenticator package, the protocol, the URLs,
\* the Transformers string as strings.Split(s, ",") returns it, the padding
Config(auth, protocol, urls, ts, padding) ==
    [AuthPackage |-> auth, Protocol |-> protocol, URL |-> urls,
     Transformers |-> ts, Padding |-> padding]
NoConfig == Config("", "", <<>>, <<>>, "")

\* New(config), for the configurations it accepts
New(auth, protocol, urls, ts) ==
    /\ AuthName = auth
    /\ Authenticator = NewAuthenticator
    /\ authenticated = FALSE
    /\ Client = getClient(protocol, Proxy, "", "").client
    /\ Protocol = protocol
    /\ URL = urls
    /\ JWT = ""
    /\ secret = PSKKey
    /\ PaddingMax = 0
    /\ Parrot = ""
    /\ JA3 = ""
    /\ currentURL = 0
    /\ transformers = ts

\* New has returned the client and no other goroutine has touched it yet
Constructed ==
    /\ registry = 1
    /\ locked = FALSE
    /\ setting = NoCall
    /\ pending = ""
    /\ sent = <<>>
    /\ pipe = NoPipe

Idle ==
    /\ pc = "idle"
    /\ caller = "agent"
    /\ msg = EmptyBase
    /\ done = FALSE
    /\ req = NoRequest
    /\ resp = NoResponse

Init ==
    /\ \E auth \in AuthPackages, protocol \in Protocols, urls \in ConfigURLs, ts \in Pipelines :
          /\ New(auth, protocol, urls, ts)
          /\ config = Config(auth, protocol, urls, ts, "")
    /\ Idle
    /\ ret = NoReturn
    /\ minted = 0
    /\ expect = NoExpect
    /\ hist = <<>>
    /\ Constructed

----------------------------------------------------------------------------
(* Client.Set *)

\* strings.ToLower(key)
KeyToLower(key) ==
    CASE key = "JWT" -> "jwt"
      [] key = "Secret" -> "secret"
      [] OTHER -> key

\* strings.ReplaceAll(u, " ", "") on one element of the comma separated list
RemoveSpaces(u) ==
    CASE u = " https://h1/a" -> "https://h1/a"
      [] OTHER -> u

\* strings.Trim(value, "\"'")
Trim(value) ==
    CASE value = "'771,4865-4866,0-23,29,0'" -> "771,4865-4866,0-23,29,0"
      [] value = "\"\"" -> ""
      [] OTHER -> value

\* strconv.Atoi(value)
Atoi(value) ==
    CASE value = "0" -> [n |-> 0, err |-> FALSE]
      [] value = "4" -> [n |-> 4, err |-> FALSE]
      [] value = "-1" -> [n |-> -1, err |-> FALSE]
      [] OTHER -> [n |-> 0, err |-> TRUE]

\* []byte(value)
Bytes(value) == [id |-> value, len |-> Len(value)]

\* the fields Set can write, after Set(key, value) on client c; err is what it returns
SetFields(c, key, value) ==
    LET k == KeyToLower(key)
        same == [URL |-> c.URL, Client |-> c.Client, JA3 |-> c.JA3, JWT |-> c.JWT,
                 Parrot |-> c.Parrot, PaddingMax |-> c.PaddingMax, secret |-> c.secret,
                 err |-> FALSE]
    IN  CASE k = "addr" ->
               LET urls == [i \in 1..Len(value) |-> RemoveSpaces(value[i])]
                   g == getClient(c.Protocol, Proxy, c.JA3, c.Parrot)
               IN  IF \E i \in 1..Len(urls) : urls[i] = BadURL
                   THEN [same EXCEPT !.err = TRUE]
                   ELSE [same EXCEPT !.URL = urls, !.Client = g.client, !.err = g.err]
          [] k = "ja3" ->
               LET g == getClient(c.Protocol, Proxy, Trim(value), c.Parrot)
               IN  [same EXCEPT !.Client = g.client, !.JA3 = Trim(value), !.err = g.err]
          [] k = "jwt" -> [same EXCEPT !.JWT = value]
          [] k = "parrot" ->
               LET g == getClient(c.Protocol, Proxy, c.JA3, Trim(value))
               IN  [same EXCEPT !.Client = g.client, !.Parrot = Trim(value), !.err = g.err]
          [] k = "paddingmax" ->
               [same EXCEPT !.PaddingMax = Atoi(value).n, !.err = Atoi(value).err]
          [] k = "secret" -> [same EXCEPT !.secret = Bytes(value)]
          [] OTHER -> [same EXCEPT !.err = TRUE]

\* the client's fields as one record
ThisClient ==
    [URL |-> URL, Client |-> Client, JA3 |-> JA3, JWT |-> JWT, Parrot |-> Parrot,
     PaddingMax |-> PaddingMax, secret |-> secret, Protocol |-> Protocol]

\* Set runs under the client's mutex, which no other method takes: it is one
\* step that may come between any two steps of the agent loop
Set(key, value) ==
    /\ pc # "panic"
    /\ LET f == SetFields(ThisClient, key, value)
       IN  /\ URL' = f.URL
           /\ Client' = f.Client
           /\ JA3' = f.JA3
           /\ JWT' = f.JWT
           /\ Parrot' = f.Parrot
           /\ PaddingMax' = f.PaddingMax
           /\ secret' = f.secret
    /\ expect' = NoExpect
    /\ UNCHANGED <<AuthName, Authenticator, authenticated, Protocol, currentURL, transformers>>
    /\ UNCHANGED <<loopVars, minted, hist>>

\* a 64-byte value and the empty one
Secret64 == "0123456789abcdef0123456789abcdef0123456789abcdef0123456789abcdef"
\* the calls of Set the model makes
SetCalls == {
    <<"addr", <<"https://h0/a">>>>,
    <<"JWT", "operator-jwt">>,
    <<"sleep", "30s">> }

----------------------------------------------------------------------------
(* Returning from a call of the agent loop *)

Return(op, err, msgs) ==
    /\ pc' = "idle"
    /\ caller' = "agent"
    /\ msg' = EmptyBase
    /\ done' = FALSE
    /\ req' = NoRequest
    /\ resp' = NoResponse
    /\ ret' = [op |-> op, err |-> err, msgs |-> msgs]

Panic ==
    /\ pc' = "panic"
    /\ UNCHANGED <<caller, msg, done, req, resp, ret>>

\* Send returns to its caller: the agent loop, or Authenticate at line 680
ReturnFromSend(err, msgs) ==
    IF caller = "agent"
    THEN Return("Send", err, msgs)
    ELSE /\ pc' = "Sent"
         /\ ret' = [op |-> "Send", err |-> err, msgs |-> msgs]
         /\ req' = NoRequest
         /\ resp' = NoResponse
         /\ UNCHANGED <<caller, msg, done>>

----------------------------------------------------------------------------
(* Client.Send *)

\* messages the agent loop sends
AgentMessages == {Base(AgentID, CHECKIN, NilPayload, "")}

\* the agent loop calls Send(m)
CallSend(m) ==
    /\ pc = "idle"
    /\ pc' = "Send"
    /\ msg' = m
    /\ ret' = NoReturn
    /\ UNCHANGED <<caller, done, req, resp>>
    /\ UNCHANGED <<clientVars, minted, expect, hist>>

\* lines 403-442: construct the message, build the request, hand it to Do
SendIssue ==
    /\ pc = "Send"
    /\ LET c == Construct(transformers, msg, secret)
       IN  IF currentURL >= Len(URL)
           THEN Panic /\ UNCHANGED <<Client, expect>>
           ELSE IF c.err
           THEN ReturnFromSend(TRUE, <<>>) /\ UNCHANGED <<Client, expect>>
           ELSE IF Client = NoClient
           THEN Panic /\ UNCHANGED <<Client, expect>>
           ELSE /\ req' = [tag |-> "request", url |-> URL[currentURL + 1],
                           bearer |-> JWT, data |-> c.data]
                /\ Client' = [Client EXCEPT !.used = TRUE]
                /\ expect' = [bearer |-> JWT, valid |-> TRUE, auth |-> FALSE]
                /\ pc' = "Do"
                /\ UNCHANGED <<caller, msg, done, resp, ret>>
    /\ UNCHANGED <<AuthName, Authenticator, authenticated, Protocol, URL, JWT, secret,
                   PaddingMax, Parrot, JA3, currentURL, transformers>>
    /\ UNCHANGED <<minted, hist>>

\* line 442: Do returns r
SendDo(r) ==
    /\ pc = "Do"
    /\ r.kind = "response" /\ r.StatusCode = 401 => minted < MaxMint
    /\ resp' = r
    /\ req' = NoRequest
    /\ pc' = "rotate"
    /\ UNCHANGED <<caller, msg, done, ret>>
    /\ UNCHANGED <<clientVars, minted, expect, hist>>

\* the rotation without the OPAQUE case of line 445
RotationAlways(name, sec, urls, cur) ==
    IF Len(urls) > 1 THEN 0..(Len(urls) - 1) ELSE {cur}

\* the sequential rotation of lines 453-456 in place of the random one
RotationSequential(name, sec, urls, cur) ==
    IF name = "OPAQUE" /\ sec.len # 64 THEN {cur}
    ELSE IF Len(urls) > 1 /\ cur < Len(urls) - 1 THEN {cur + 1}
    ELSE {cur}

\* the rotation held back only while the secret is empty
RotationWhileEmpty(name, sec, urls, cur) ==
    IF name = "OPAQUE" /\ sec.len = 0 THEN {cur}
    ELSE IF Len(urls) > 1 THEN 0..(Len(urls) - 1)
    ELSE {cur}

\* lines 444-458: the indexes the rotation may choose
Rotation(name, sec, urls, cur) ==
    IF name = "OPAQUE" /\ sec.len # 64 THEN {cur}
    ELSE IF Len(urls) > 1 THEN 0..(Len(urls) - 1)
    ELSE {cur}

SendRotate(i) ==
    /\ pc = "rotate"
    /\ i \in Rotation(AuthName, secret, URL, currentURL)
    /\ currentURL' = i
    /\ pc' = "result"
    /\ UNCHANGED <<caller, msg, done, req, resp, ret>>
    /\ UNCHANGED <<AuthName, Authenticator, authenticated, Client, Protocol, URL, JWT,
                   secret, PaddingMax, Parrot, JA3, transformers>>
    /\ UNCHANGED <<minted, expect, hist>>

\* the three error texts that make Send build a new HTTP/3 client
HTTP3Errors == {"Application error 0x0",
                "NO_ERROR: Handshake did not complete in time",
                "NO_ERROR: No recent network activity"}

\* what Send returns and the fields it leaves
Outcome(c, err, msgs) ==
    [err |-> err, msgs |-> msgs, Client |-> c.Client, JWT |-> c.JWT,
     secret |-> c.secret, authenticated |-> c.authenticated, minted |-> c.minted]

\* the rebuild without the protocol check of line 462
TransportFailureAnyProtocol(r, c) ==
    IF \E e \in HTTP3Errors : Contains(r.text, e)
    THEN [Outcome(c, TRUE, <<>>) EXCEPT !.Client = getClient(c.Protocol, "", "", "").client]
    ELSE Outcome(c, TRUE, <<>>)

\* lines 460-499: Do returned an error
TransportFailure(r, c) ==
    IF c.Protocol = "http3" /\ \E e \in HTTP3Errors : Contains(r.text, e)
    THEN [Outcome(c, TRUE, <<>>) EXCEPT !.Client = getClient(c.Protocol, "", "", "").client]
    ELSE Outcome(c, TRUE, <<>>)

\* status 401 handled without minting a token
UnauthorizedKeepJWT(c) == Outcome(c, FALSE, <<>>)

\* lines 505-511: status 401
Unauthorized(c) ==
    [Outcome(c, FALSE, <<>>) EXCEPT !.JWT = BootstrapJWT(c.minted + 1),
                                    !.minted = c.minted + 1]

\* lines 517-546: the checks a 200 response passes before its body is deconstructed
Accepted(r) ==
    /\ r.ContentType # <<"">>
    /\ isOctet(r.ContentType)
    /\ r.ContentLength # 0
    /\ r.readOK

\* lines 548-561 without the token update of lines 556-558
FromBodyKeepJWT(r, c) ==
    LET d == Deconstruct(c.transformers, r.Body, c.secret, c.authenticated)
    IN  IF d.err
        THEN [Outcome(c, TRUE, <<>>) EXCEPT !.secret = d.secret,
                                            !.authenticated = d.authenticated]
        ELSE [Outcome(c, FALSE, <<d.msg>>) EXCEPT
                  !.secret = d.secret, !.authenticated = d.authenticated]

\* lines 548-561: the body is deconstructed
FromBody(r, c) ==
    LET d == Deconstruct(c.transformers, r.Body, c.secret, c.authenticated)
    IN  IF d.err
        THEN [Outcome(c, TRUE, <<>>) EXCEPT !.secret = d.secret,
                                            !.authenticated = d.authenticated]
        ELSE [Outcome(c, FALSE, <<d.msg>>) EXCEPT
                  !.secret = d.secret, !.authenticated = d.authenticated,
                  !.JWT = IF d.msg.Token # "" THEN d.msg.Token ELSE c.JWT]

\* lines 460-562: what Send makes of what Do returned
SendOutcome(r, c) ==
    IF r.kind = "error" THEN TransportFailure(r, c)
    ELSE IF r.StatusCode = 401 THEN Unauthorized(c)
    ELSE IF r.StatusCode # 200 THEN Outcome(c, TRUE, <<>>)
    ELSE IF ~Accepted(r) THEN Outcome(c, TRUE, <<>>)
    ELSE FromBody(r, c)

\* the fields of the client Send reads after Do has returned
Fields ==
    [Client |-> Client, JWT |-> JWT, secret |-> secret, authenticated |-> authenticated,
     minted |-> minted, Protocol |-> Protocol, transformers |-> transformers]

\* the Bearer token a response calls for in the next request, bearer being the
\* one of the request it answers: the token of the message a 200 carried, the
\* token minted on a 401, else the same one
Updated(r, o, bearer) ==
    IF r.kind = "response" /\ r.StatusCode = 401 THEN o.JWT
    ELSE IF r.kind = "response" /\ r.StatusCode = 200 /\ Len(o.msgs) > 0
            /\ o.msgs[1].Token # ""
    THEN o.msgs[1].Token
    ELSE bearer

SendResult ==
    /\ pc = "result"
    /\ LET o == SendOutcome(resp, Fields)
       IN  /\ Client' = o.Client
           /\ JWT' = o.JWT
           /\ secret' = o.secret
           /\ authenticated' = o.authenticated
           /\ minted' = o.minted
           /\ expect' = IF expect.valid
                         THEN [expect EXCEPT !.bearer = Updated(resp, o, expect.bearer)]
                         ELSE expect
           /\ ReturnFromSend(o.err, o.msgs)
    /\ UNCHANGED <<AuthName, Authenticator, Protocol, URL, PaddingMax, Parrot, JA3,
                   currentURL, transformers>>
    /\ UNCHANGED hist

----------------------------------------------------------------------------
(* Client.Authenticate *)

\* messages Authenticate is called with: the empty one of Initial, or one the
\* server sent
Seeds == {EmptyBase,
          Base(AgentID, OPAQUE, Opaque("ReRegister", "ok"), ""),
          Base(AgentID, OPAQUE, Opaque("ReAuthenticate", "ok"), "")}

\* lines 638-650 without the reset of line 644: the secret stays what it was
CallAuthenticateKeepSecret(seed) ==
    /\ pc = "idle"
    /\ minted < MaxMint
    /\ authenticated' = FALSE
    /\ secret' = secret
    /\ JWT' = BootstrapJWT(minted + 1)
    /\ minted' = minted + 1
    /\ pc' = "Authenticate"
    /\ caller' = "auth"
    /\ msg' = seed
    /\ done' = FALSE
    /\ ret' = NoReturn
    /\ UNCHANGED <<req, resp>>
    /\ expect' = IF expect.valid THEN [expect EXCEPT !.auth = TRUE] ELSE expect
    /\ UNCHANGED <<AuthName, Authenticator, Client, Protocol, URL, PaddingMax, Parrot,
                   JA3, currentURL, transformers>>
    /\ UNCHANGED hist

\* lines 638-650
CallAuthenticate(seed) ==
    /\ pc = "idle"
    /\ minted < MaxMint
    /\ authenticated' = FALSE
    /\ secret' = PSKKey
    /\ JWT' = BootstrapJWT(minted + 1)
    /\ minted' = minted + 1
    /\ pc' = "Authenticate"
    /\ caller' = "auth"
    /\ msg' = seed
    /\ done' = FALSE
    /\ ret' = NoReturn
    /\ UNCHANGED <<req, resp>>
    /\ expect' = IF expect.valid THEN [expect EXCEPT !.auth = TRUE] ELSE expect
    /\ UNCHANGED <<AuthName, Authenticator, Client, Protocol, URL, PaddingMax, Parrot,
                   JA3, currentURL, transformers>>
    /\ UNCHANGED hist

\* the loop of Authenticate without the check of lines 658-661: an empty
\* message is sent like any other
AuthenticateStepNoExit(name, a, in, sec, authd) ==
    LET r == AuthenticatorAuthenticate(name, a, in)
        s == AuthenticatorSecret(name, r.a)
        base == [a |-> r.a, out |-> r.out, done |-> r.authenticated,
                 secret |-> sec, authenticated |-> authd, err |-> FALSE, next |-> "send"]
    IN  IF r.panic THEN [base EXCEPT !.next = "panic"]
        ELSE IF r.err THEN [base EXCEPT !.next = "return", !.err = TRUE]
        ELSE IF ~r.authenticated THEN base
        ELSE IF s.panic THEN [base EXCEPT !.next = "panic", !.authenticated = TRUE]
        ELSE IF s.err THEN [base EXCEPT !.next = "return", !.err = TRUE, !.authenticated = TRUE]
        ELSE [base EXCEPT !.authenticated = TRUE,
                          !.secret = IF s.key.len > 0 THEN s.key ELSE sec]

\* the loop of Authenticate without the length check of line 673: the key
\* Secret() returned replaces the secret even when it is empty
AuthenticateStepAnyKey(name, a, in, sec, authd) ==
    LET r == AuthenticatorAuthenticate(name, a, in)
        s == AuthenticatorSecret(name, r.a)
        base == [a |-> r.a, out |-> r.out, done |-> r.authenticated,
                 secret |-> sec, authenticated |-> authd, err |-> FALSE, next |-> "send"]
    IN  IF r.panic THEN [base EXCEPT !.next = "panic"]
        ELSE IF r.err THEN [base EXCEPT !.next = "return", !.err = TRUE]
        ELSE IF r.out.Type = "0" THEN [base EXCEPT !.next = "return"]
        ELSE IF ~r.authenticated THEN base
        ELSE IF s.panic THEN [base EXCEPT !.next = "panic", !.authenticated = TRUE]
        ELSE IF s.err THEN [base EXCEPT !.next = "return", !.err = TRUE, !.authenticated = TRUE]
        ELSE [base EXCEPT !.authenticated = TRUE, !.secret = s.key]

\* lines 654-676: one step of the authenticator and what Authenticate makes of
\* it.  next: "panic", "return" (with err) or "send"
AuthenticateStep(name, a, in, sec, authd) ==
    LET r == AuthenticatorAuthenticate(name, a, in)
        s == AuthenticatorSecret(name, r.a)
        base == [a |-> r.a, out |-> r.out, done |-> r.authenticated,
                 secret |-> sec, authenticated |-> authd, err |-> FALSE, next |-> "send"]
    IN  IF r.panic THEN [base EXCEPT !.next = "panic"]
        ELSE IF r.err THEN [base EXCEPT !.next = "return", !.err = TRUE]
        ELSE IF r.out.Type = "0" THEN [base EXCEPT !.next = "return"]
        ELSE IF ~r.authenticated THEN base
        ELSE IF s.panic THEN [base EXCEPT !.next = "panic", !.authenticated = TRUE]
        ELSE IF s.err THEN [base EXCEPT !.next = "return", !.err = TRUE, !.authenticated = TRUE]
        ELSE [base EXCEPT !.authenticated = TRUE,
                          !.secret = IF s.key.len > 0 THEN s.key ELSE sec]

AuthStep ==
    /\ pc = "Authenticate"
    /\ LET t == AuthenticateStep(AuthName, Authenticator, msg, secret, authenticated)
       IN  /\ Authenticator' = t.a
           /\ secret' = t.secret
           /\ authenticated' = t.authenticated
           /\ CASE t.next = "panic" -> Panic
                [] t.next = "return" -> Return("Authenticate", t.err, <<>>)
                [] OTHER -> /\ pc' = "Send"
                            /\ msg' = t.out
                            /\ done' = t.done
                            /\ UNCHANGED <<caller, req, resp, ret>>
    /\ UNCHANGED <<AuthName, Client, Protocol, URL, JWT, PaddingMax, Parrot, JA3,
                   currentURL, transformers>>
    /\ UNCHANGED <<minted, expect, hist>>

\* the loop of Authenticate without the exit of lines 690-693
AuthLoopIgnoresDone ==
    /\ pc = "Sent"
    /\ IF ret.err
       THEN Return("Authenticate", TRUE, <<>>)
       ELSE /\ pc' = "Authenticate"
            /\ msg' = IF Len(ret.msgs) > 0 THEN ret.msgs[1] ELSE msg
            /\ ret' = NoReturn
            /\ UNCHANGED <<caller, done, req, resp>>
    /\ UNCHANGED <<clientVars, minted, expect, hist>>

\* lines 680-693: Send has returned to Authenticate
AuthLoop ==
    /\ pc = "Sent"
    /\ IF ret.err
       THEN Return("Authenticate", TRUE, <<>>)
       ELSE IF done
       THEN Return("Authenticate", FALSE, <<>>)
       ELSE /\ pc' = "Authenticate"
            /\ msg' = IF Len(ret.msgs) > 0 THEN ret.msgs[1] ELSE msg
            /\ ret' = NoReturn
            /\ UNCHANGED <<caller, done, req, resp>>
    /\ UNCHANGED <<clientVars, minted, expect, hist>>

----------------------------------------------------------------------------
(* The client in its process *)

Next ==
    \/ (\E m \in AgentMessages : CallSend(m)) /\ UNCHANGED auxVars
    \/ SendIssue /\ UNCHANGED auxVars
    \/ (\E r \in Responses(transformers) : SendDo(r)) /\ UNCHANGED auxVars
    \/ (\E i \in 0..2 : SendRotate(i)) /\ UNCHANGED auxVars
    \/ SendResult /\ UNCHANGED auxVars
    \/ (\E seed \in Seeds : CallAuthenticate(seed)) /\ UNCHANGED auxVars
    \/ AuthStep /\ UNCHANGED auxVars
    \/ AuthLoop /\ UNCHANGED auxVars
    \/ (\E call \in SetCalls : Set(call[1], call[2])) /\ UNCHANGED auxVars

Spec == Init /\ [][Next]_vars

----------------------------------------------------------------------------
(* Set called from another goroutine while the agent loop runs.  Set takes the
   client's mutex (line 569) and releases it when it returns (line 570); Send
   takes no lock, so its steps run whether or not the mutex is held. *)

\* the calls of Set the other goroutine makes
MutexCalls == {
    <<"addr", <<"https://h0/a">>>>,
    <<"jwt", "operator-jwt">>,
    <<"ja3", "'771,4865-4866,0-23,29,0'">> }

InitMutex ==
    /\ New("none", "http3", <<"https://h0/a", "https://h1/a", "https://h2/a">>,
           <<"jwe", "gob-base">>)
    /\ config = Config("none", "http3", <<"https://h0/a", "https://h1/a", "https://h2/a">>,
                       <<"jwe", "gob-base">>, "")
    /\ Idle
    /\ ret = NoReturn
    /\ minted = 0
    /\ expect = NoExpect
    /\ hist = <<>>
    /\ Constructed

\* line 569: client.Lock() returns
SetLock(key, value) ==
    /\ pc # "panic"
    /\ ~locked
    /\ locked' = TRUE
    /\ setting' = <<key, value>>
    /\ UNCHANGED <<clientVars, loopVars, minted, expect, hist>>
    /\ UNCHANGED <<config, registry, pending, sent, pipe>>

\* lines 572-615: the switch, then the deferred client.Unlock()
SetRun ==
    /\ locked
    /\ setting # NoCall
    /\ Set(setting[1], setting[2])
    /\ locked' = FALSE
    /\ setting' = NoCall
    /\ pending' = IF KeyToLower(setting[1]) = "jwt" THEN setting[2] ELSE pending
    /\ UNCHANGED <<config, registry, sent, pipe>>

\* Send hands its request to Do: the request carries client.JWT
IssueUnlocked ==
    /\ SendIssue
    /\ pending' = IF pc' = "Do" THEN "" ELSE pending
    /\ UNCHANGED <<config, registry, locked, setting, sent, pipe>>

NextMutex ==
    \/ (\E m \in AgentMessages : CallSend(m)) /\ UNCHANGED auxVars
    \/ IssueUnlocked
    \/ (\E r \in Responses(transformers) : SendDo(r)) /\ UNCHANGED auxVars
    \/ (\E i \in 0..2 : SendRotate(i)) /\ UNCHANGED auxVars
    \/ SendResult /\ UNCHANGED auxVars
    \/ \E call \in MutexCalls : SetLock(call[1], call[2])
    \/ SetRun

SpecMutex == InitMutex /\ [][NextMutex]_vars

----------------------------------------------------------------------------
(* Authenticate against a server that follows the OPAQUE protocol *)

HandshakePipelines == {<<"jwe", "gob-base">>, <<"aes", "gob-base">>,
                       <<"base64-byte", "jwe", "gob-base">>}
HandshakeURLs == {<<"https://h0/a">>, <<"https://h0/a", "https://h1/a", "https://h2/a">>}

InitHandshake ==
    /\ \E protocol \in Protocols, urls \in HandshakeURLs, ts \in HandshakePipelines :
          /\ New("OPAQUE", protocol, urls, ts)
          /\ config = Config("OPAQUE", protocol, urls, ts, "")
    /\ Idle
    /\ ret = NoReturn
    /\ minted = 0
    /\ expect = NoExpect
    /\ hist = <<>>
    /\ Constructed

RECURSIVE Innermost(_)
\* the message the server reads in the data of a request
Innermost(data) == IF data.tag = "enc" THEN Innermost(data.inner) ELSE data

\* the server's reply to an OPAQUE message: the same step of the protocol, and
\* an acknowledgement that carries the session's token after AuthComplete
MatchingReply(m) ==
    IF m.Payload.Type = "AuthComplete"
    THEN Base(AgentID, IDLE, NilPayload, ServerToken)
    ELSE Base(AgentID, OPAQUE, Opaque(m.Payload.Type, "ok"), "")

\* the response of that server: status 200, the reply constructed under the key
\* the agent holds
Answer ==
    Response(200, <<"application/octet-stream">>, 1,
             Construct(transformers, MatchingReply(Innermost(req.data)), secret).data, TRUE)

\* Initial calls Authenticate with the empty message, once
HandshakeCall ==
    /\ minted = 0
    /\ CallAuthenticate(EmptyBase)
    /\ UNCHANGED auxVars

\* Send hands its request to Do
HandshakeIssue ==
    /\ SendIssue
    /\ sent' = IF pc' = "Do" THEN Append(sent, msg.Payload.Type) ELSE sent
    /\ UNCHANGED <<config, registry, locked, setting, pending, pipe>>

HandshakeDo ==
    /\ pc = "Do"
    /\ SendDo(Answer)
    /\ UNCHANGED auxVars

NextHandshake ==
    \/ HandshakeCall
    \/ AuthStep /\ UNCHANGED auxVars
    \/ HandshakeIssue
    \/ HandshakeDo
    \/ (\E i \in 0..2 : SendRotate(i)) /\ UNCHANGED auxVars
    \/ SendResult /\ UNCHANGED auxVars
    \/ AuthLoop /\ UNCHANGED auxVars

\* the agent's goroutine keeps running and the server answers every request
SpecHandshake == InitHandshake /\ [][NextHandshake]_vars /\ WF_vars(NextHandshake)

----------------------------------------------------------------------------
(* Runs of Authenticate against any server, with several URLs and no Set *)

InitRun ==
    /\ New("OPAQUE", "https", <<"https://h0/a", "https://h1/a", "https://h2/a">>,
           <<"jwe", "gob-base">>)
    /\ config = Config("OPAQUE", "https", <<"https://h0/a", "https://h1/a", "https://h2/a">>,
                       <<"jwe", "gob-base">>, "")
    /\ Idle
    /\ ret = NoReturn
    /\ minted = 0
    /\ expect = NoExpect
    /\ hist = <<>>
    /\ Constructed

\* line 638: a run begins; pipe keeps the URL the client points at
RunCall(seed) ==
    /\ CallAuthenticate(seed)
    /\ pipe' = [op |-> "Authenticate", url |-> URL[currentURL + 1]]
    /\ UNCHANGED <<config, registry, locked, setting, pending, sent>>

NextRun ==
    \/ \E seed \in Seeds : RunCall(seed)
    \/ AuthStep /\ UNCHANGED auxVars
    \/ SendIssue /\ UNCHANGED auxVars
    \/ (\E r \in Responses(transformers) : SendDo(r)) /\ UNCHANGED auxVars
    \/ (\E i \in 0..2 : SendRotate(i)) /\ UNCHANGED auxVars
    \/ SendResult /\ UNCHANGED auxVars
    \/ AuthLoop /\ UNCHANGED auxVars

SpecRun == InitRun /\ [][NextRun]_vars

----------------------------------------------------------------------------
(* New(config): construction, from any Config *)

RECURSIVE TransformersFromSkipping(_, _, _)
\* the loop of lines 143-175 without its default case: an unknown identifier
\* is skipped
TransformersFromSkipping(ts, i, acc) ==
    IF i > Len(ts) THEN [transformers |-> acc, err |-> FALSE]
    ELSE IF ToLower(ts[i]) \in StageNames
    THEN TransformersFromSkipping(ts, i + 1, Append(acc, ToLower(ts[i])))
    ELSE TransformersFromSkipping(ts, i + 1, acc)

RECURSIVE TransformersFrom(_, _, _)
\* the loop of lines 143-175 at element i: the transformers of the elements of
\* the Transformers string, or the error of the first element that is not a
\* known identifier
TransformersFrom(ts, i, acc) ==
    IF i > Len(ts) THEN [transformers |-> acc, err |-> FALSE]
    ELSE IF ToLower(ts[i]) \in StageNames
    THEN TransformersFrom(ts, i + 1, Append(acc, ToLower(ts[i])))
    ELSE [transformers |-> <<>>, err |-> TRUE]

NewTransformers(ts) == TransformersFrom(ts, 1, <<>>)

\* New(config): err, and whether the client was added to the repository
NewClient(cfg) ==
    LET t == NewTransformers(cfg.Transformers)
        g == getClient(cfg.Protocol, Proxy, "", "")
        failed == [err |-> TRUE, added |-> FALSE, name |-> "", transformers |-> <<>>,
                   PaddingMax |-> 0, Client |-> NoClient]
    IN  IF ToLower(cfg.AuthPackage) \notin {"none", "opaque"} THEN failed
        ELSE IF t.err THEN failed
        ELSE IF cfg.Padding # "" /\ Atoi(cfg.Padding).err THEN failed
        ELSE IF g.err THEN failed
        ELSE [err |-> FALSE, added |-> TRUE,
              name |-> IF ToLower(cfg.AuthPackage) = "opaque" THEN "OPAQUE" ELSE "none",
              transformers |-> t.transformers,
              PaddingMax |-> IF cfg.Padding = "" THEN 0 ELSE Atoi(cfg.Padding).n,
              Client |-> g.client]

\* the Configs New is called with
NewAuthPackages == {"opaque", "OPAQUE", "none", "basic"}
NewProtocols == {"https", "http3", "ftp"}
NewElements == {"jwe", "JWE", "gob-base", " gob-base", "zip", ""}
NewTransformerLists ==
    {<<e>> : e \in NewElements} \cup {<<e, f>> : e \in NewElements, f \in NewElements}
NewPaddings == {"", "4", "x"}
Configs ==
    {Config(a, p, <<"https://h0/a">>, ts, pad) :
        a \in NewAuthPackages, p \in NewProtocols, ts \in NewTransformerLists,
        pad \in NewPaddings}

\* the process before it has called New: no client, an empty repository
InitNew ==
    /\ AuthName = ""
    /\ Authenticator = NewAuthenticator
    /\ authenticated = FALSE
    /\ Client = NoClient
    /\ Protocol = ""
    /\ URL = <<>>
    /\ JWT = ""
    /\ secret = NilKey
    /\ PaddingMax = 0
    /\ Parrot = ""
    /\ JA3 = ""
    /\ currentURL = 0
    /\ transformers = <<>>
    /\ pc = "new"
    /\ caller = "agent"
    /\ msg = EmptyBase
    /\ done = FALSE
    /\ req = NoRequest
    /\ resp = NoResponse
    /\ ret = NoReturn
    /\ minted = 0
    /\ expect = NoExpect
    /\ hist = <<>>
    /\ config = NoConfig
    /\ registry = 0
    /\ locked = FALSE
    /\ setting = NoCall
    /\ pending = ""
    /\ sent = <<>>
    /\ pipe = NoPipe

\* the process calls New(cfg); a client New returns with an error is not used
CallNew(cfg) ==
    /\ pc = "new"
    /\ config' = cfg
    /\ LET r == NewClient(cfg)
       IN  /\ ret' = [op |-> "New", err |-> r.err, msgs |-> <<>>]
           /\ registry' = IF r.added THEN registry + 1 ELSE registry
           /\ IF r.err
              THEN /\ pc' = "failed"
                   /\ UNCHANGED clientVars
              ELSE /\ pc' = "idle"
                   /\ AuthName' = r.name
                   /\ Client' = r.Client
                   /\ Protocol' = cfg.Protocol
                   /\ URL' = cfg.URL
                   /\ secret' = PSKKey
                   /\ PaddingMax' = r.PaddingMax
                   /\ transformers' = r.transformers
                   /\ UNCHANGED <<Authenticator, authenticated, JWT, Parrot, JA3, currentURL>>
    /\ UNCHANGED <<caller, msg, done, req, resp, minted, expect, hist>>
    /\ UNCHANGED <<locked, setting, pending, sent, pipe>>

\* the calls of Set made on the client New returned
NewSetCalls == {
    <<"secret", "">>,
    <<"secret", Secret64>>,
    <<"JWT", "operator-jwt">>,
    <<"paddingmax", "4">>,
    <<"paddingmax", "-1">>,
    <<"paddingmax", "x">>,
    <<"parrot", "chrome">>,
    <<"ja3", "'771,4865-4866,0-23,29,0'">>,
    <<"ja3", "">>,
    <<"ja3", BadJA3>>,
    <<"sleep", "30s">> }

SetConstructed(key, value) ==
    /\ pc = "idle"
    /\ Set(key, value)
    /\ UNCHANGED auxVars

NextNew ==
    \/ \E cfg \in Configs : CallNew(cfg)
    \/ \E call \in NewSetCalls : SetConstructed(call[1], call[2])

SpecNew == InitNew /\ [][NextNew]_vars

----------------------------------------------------------------------------
(* The OPAQUE authenticator on its own: any sequence of inbound messages *)

Inbound ==
    {EmptyBase}
    \cup {Base(AgentID, OPAQUE, Opaque(t, "ok"), "") : t \in OpaqueReplies \cup {"AuthComplete"}}
    \cup {Base(AgentID, OPAQUE, Opaque("RegInit", "bad"), ""),
          Base(AgentID, OPAQUE, Opaque("AuthInit", "bad"), ""),
          Base(OtherID, OPAQUE, Opaque("RegInit", "ok"), ""),
          Base(OtherID, OPAQUE, Opaque("ReAuthenticate", "ok"), ""),
          Base(OtherID, OPAQUE, Opaque("ReRegister", "ok"), ""),
          Base(OtherID, IDLE, NilPayload, ""),
          Base(AgentID, IDLE, NilPayload, ServerToken),
          Base(AgentID, OPAQUE, NilPayload, "")}

InitOpaque ==
    /\ New("OPAQUE", "https", <<"https://h0/a">>, <<"jwe", "gob-base">>)
    /\ config = Config("OPAQUE", "https", <<"https://h0/a">>, <<"jwe", "gob-base">>, "")
    /\ Idle
    /\ ret = NoReturn
    /\ minted = 0
    /\ expect = NoExpect
    /\ hist = <<>>
    /\ Constructed

\* one call of Authenticator.Authenticate(in), recorded
OpaqueStep(in) ==
    /\ pc = "idle"
    /\ Len(hist) < MaxHist
    /\ LET r == OpaqueAuthenticate(Authenticator, in)
       IN  /\ Authenticator' = r.a
           /\ hist' = Append(hist, [in |-> in, before |-> Authenticator, after |-> r.a,
                                    out |-> r.out, done |-> r.authenticated,
                                    err |-> r.err, panic |-> r.panic])
           /\ pc' = IF r.panic THEN "panic" ELSE "idle"
    /\ UNCHANGED <<AuthName, authenticated, Client, Protocol, URL, JWT, secret,
                   PaddingMax, Parrot, JA3, currentURL, transformers>>
    /\ UNCHANGED <<caller, msg, done, req, resp, ret, minted, expect>>

NextOpaque == (\E in \in Inbound : OpaqueStep(in)) /\ UNCHANGED auxVars

SpecOpaque == InitOpaque /\ [][NextOpaque]_vars

----------------------------------------------------------------------------
(* Construct and Deconstruct one iteration at a time.  Every call a loop makes
   of a stage is recorded in pipe.calls: the stage's index in the list, the key
   it was passed, whether it was given the Message or data, whether it is the
   second call of line 730, and whether it returned an error or a Message. *)

\* lists of stages New accepts
PipePipelines == {<<"gob-base">>,
                  <<"jwe", "gob-base">>,
                  <<"xor", "gob-base">>,
                  <<"base64-byte", "jwe", "gob-base">>,
                  <<"jwe", "aes", "gob-base">>,
                  <<"gob-base", "jwe">>,
                  <<"jwe", "hex-byte">>}

\* the messages Construct is called with
PipeMessages == {Base(AgentID, CHECKIN, NilPayload, ""),
                 Base(AgentID, OPAQUE, Opaque("RegInit", "ok"), "")}

\* the data Deconstruct is called with: a message or bytes no stage produced
\* under the first n stages of the list, keyed by one key
PipeBodies(ts) ==
    {Wrap(ts, n, v, k) : n \in 1..Len(ts),
                         v \in {Base(AgentID, IDLE, NilPayload, ServerToken), Garbage},
                         k \in ServerKeys}
    \cup {Garbage}

\* the authenticator after the four steps of a handshake
RECURSIVE AuthenticatorAfter(_, _)
AuthenticatorAfter(ins, n) ==
    IF n = 0 THEN NewAuthenticator
    ELSE OpaqueAuthenticate(AuthenticatorAfter(ins, n - 1), ins[n]).a
Enrolled ==
    AuthenticatorAfter(<<EmptyBase,
                         Base(AgentID, OPAQUE, Opaque("RegInit", "ok"), ""),
                         Base(AgentID, OPAQUE, Opaque("RegComplete", "ok"), ""),
                         Base(AgentID, OPAQUE, Opaque("AuthInit", "ok"), "")>>, 4)

\* a client as New returned it, or as a finished Authenticate left it: with
\* the authenticator's secret (OPAQUE) or with the one it had ("none")
InitPipeline ==
    /\ \E ts \in PipePipelines :
          \/ /\ \E auth \in AuthPackages : New(auth, "https", <<"https://h0/a">>, ts)
             /\ minted = 0
             /\ config = Config(AuthName, "https", <<"https://h0/a">>, ts, "")
          \/ /\ AuthName = "OPAQUE"
             /\ Authenticator = Enrolled
             /\ authenticated = TRUE
             /\ secret = OpaqueSecret(Enrolled).key
             /\ JWT = ServerToken
             /\ minted = 1
             /\ Client = [getClient("https", Proxy, "", "").client EXCEPT !.used = TRUE]
             /\ Protocol = "https"
             /\ URL = <<"https://h0/a">>
             /\ PaddingMax = 0 /\ Parrot = "" /\ JA3 = "" /\ currentURL = 0
             /\ transformers = ts
             /\ config = Config("OPAQUE", "https", <<"https://h0/a">>, ts, "")
          \/ /\ AuthName = "none"
             /\ Authenticator = NewAuthenticator
             /\ authenticated = TRUE
             /\ secret = PSKKey
             /\ JWT = ServerToken
             /\ minted = 1
             /\ Client = [getClient("https", Proxy, "", "").client EXCEPT !.used = TRUE]
             /\ Protocol = "https"
             /\ URL = <<"https://h0/a">>
             /\ PaddingMax = 0 /\ Parrot = "" /\ JA3 = "" /\ currentURL = 0
             /\ transformers = ts
             /\ config = Config("none", "https", <<"https://h0/a">>, ts, "")
    /\ Idle
    /\ ret = NoReturn
    /\ expect = NoExpect
    /\ hist = <<>>
    /\ Constructed

\* a call of Construct or Deconstruct begins: nothing done yet
Running(op, i, value, own) ==
    [op |-> op, i |-> i, data |-> value, calls |-> <<>>, given |-> value,
     secret |-> secret, authenticated |-> authenticated, own |-> own]

Call(i, key, arg, retry, r) ==
    [i |-> i, key |-> key, arg |-> arg, retry |-> retry,
     result |-> IF r.err THEN "error"
                ELSE IF "ret" \in DOMAIN r /\ r.ret.tag = "msg" THEN "Message"
                ELSE "data"]

PipeReturn(op, err, msgs) ==
    /\ pc' = "idle"
    /\ ret' = [op |-> op, err |-> err, msgs |-> msgs]

\* the loop of Construct started at the first stage of the list
ConstructFirstOfList(ts) == 1

\* line 702: the loop of Construct starts at the last stage of the list
ConstructFirst(ts) == Len(ts)

\* line 699
PipeCallConstruct(m) ==
    /\ pc = "idle"
    /\ pc' = "Construct"
    /\ msg' = m
    /\ ret' = NoReturn
    /\ pipe' = Running("Construct", ConstructFirst(transformers), m, FALSE)
    /\ UNCHANGED <<caller, done, req, resp>>
    /\ UNCHANGED <<clientVars, minted, expect, hist>>
    /\ UNCHANGED <<config, registry, locked, setting, pending, sent>>

\* lines 702-715: one iteration of the loop of Construct, and the return when
\* it was the last one
PipeConstructStage ==
    /\ pc = "Construct"
    /\ LET i == pipe.i
           r == StageConstruct(transformers[i], pipe.data, secret)
           arg == IF i = Len(transformers) THEN "msg" ELSE "data"
           calls == Append(pipe.calls, Call(i, secret, arg, FALSE, r))
       IN  IF r.err
           THEN /\ PipeReturn("Construct", TRUE, <<>>)
                /\ pipe' = [pipe EXCEPT !.calls = calls, !.data = Garbage]
           ELSE IF i = 1
           THEN /\ pc' = "built"
                /\ ret' = [op |-> "Construct", err |-> FALSE, msgs |-> <<>>]
                /\ pipe' = [pipe EXCEPT !.calls = calls, !.data = r.data, !.i = 0]
           ELSE /\ pipe' = [pipe EXCEPT !.calls = calls, !.data = r.data, !.i = i - 1]
                /\ UNCHANGED <<pc, ret>>
    /\ UNCHANGED <<caller, msg, done, req, resp>>
    /\ UNCHANGED <<clientVars, minted, expect, hist>>
    /\ UNCHANGED <<config, registry, locked, setting, pending, sent>>

\* line 720, called with the data Construct has just returned
PipeCallDeconstructOwn ==
    /\ pc = "built"
    /\ pc' = "Deconstruct"
    /\ ret' = NoReturn
    /\ pipe' = [Running("Deconstruct", 1, pipe.data, TRUE) EXCEPT !.given = pipe.given]
    /\ UNCHANGED <<caller, msg, done, req, resp>>
    /\ UNCHANGED <<clientVars, minted, expect, hist>>
    /\ UNCHANGED <<config, registry, locked, setting, pending, sent>>

\* line 720, called with the body of a response
PipeCallDeconstruct(body) ==
    /\ pc = "idle"
    /\ pc' = "Deconstruct"
    /\ msg' = EmptyBase
    /\ ret' = NoReturn
    /\ pipe' = Running("Deconstruct", 1, body, FALSE)
    /\ UNCHANGED <<caller, done, req, resp>>
    /\ UNCHANGED <<clientVars, minted, expect, hist>>
    /\ UNCHANGED <<config, registry, locked, setting, pending, sent>>

\* the type switch without its messages.Base case
IsBaseNever(value) == FALSE

\* lines 738-745: the type switch on what the stage returned finds a
\* messages.Base
IsBase(value) == value.tag = "msg"

\* lines 723-750: one iteration of the loop of Deconstruct, and the return
\* after the loop when it was the last one
PipeDeconstructStage ==
    /\ pc = "Deconstruct"
    /\ LET i == pipe.i
           first == StageDeconstruct(transformers[i], pipe.data, secret)
           second == StageDeconstruct(transformers[i], pipe.data, PSKKey)
           r == IF first.err THEN second ELSE first
           calls == IF first.err
                    THEN pipe.calls \o <<Call(i, secret, "data", FALSE, first),
                                         Call(i, PSKKey, "data", TRUE, second)>>
                    ELSE Append(pipe.calls, Call(i, secret, "data", FALSE, first))
       IN  /\ IF first.err /\ ~second.err
              THEN authenticated' = FALSE /\ secret' = PSKKey
              ELSE UNCHANGED <<authenticated, secret>>
           /\ IF r.err
              THEN /\ PipeReturn("Deconstruct", TRUE, <<>>)
                   /\ pipe' = [pipe EXCEPT !.calls = calls]
              ELSE IF IsBase(r.ret)
              THEN /\ PipeReturn("Deconstruct", FALSE, <<r.ret>>)
                   /\ pipe' = [pipe EXCEPT !.calls = calls]
              ELSE IF i = Len(transformers)
              THEN /\ PipeReturn("Deconstruct", TRUE, <<>>)
                   /\ pipe' = [pipe EXCEPT !.calls = calls, !.data = r.ret, !.i = i + 1]
              ELSE /\ pipe' = [pipe EXCEPT !.calls = calls, !.data = r.ret, !.i = i + 1]
                   /\ UNCHANGED <<pc, ret>>
    /\ UNCHANGED <<AuthName, Authenticator, Client, Protocol, URL, JWT, PaddingMax,
                   Parrot, JA3, currentURL, transformers>>
    /\ UNCHANGED <<caller, msg, done, req, resp>>
    /\ UNCHANGED <<minted, expect, hist>>
    /\ UNCHANGED <<config, registry, locked, setting, pending, sent>>

NextPipeline ==
    \/ \E m \in PipeMessages : PipeCallConstruct(m)
    \/ PipeConstructStage
    \/ PipeCallDeconstructOwn
    \/ \E body \in PipeBodies(transformers) : PipeCallDeconstruct(body)
    \/ PipeDeconstructStage

SpecPipeline == InitPipeline /\ [][NextPipeline]_vars

----------------------------------------------------------------------------
(* Send against a server whose responses differ in their Content-Type only *)

\* Content-Type headers, as strings.Split(contentType, ",") returns them: the
\* text after a comma keeps its leading space
ContentHeaders == {
    <<"application/octet-stream">>,
    <<"Application/Octet-Stream">>,
    <<"application/octet-stream", " utf-8">>,
    <<"application/octet-stream", "utf-8">>,
    <<"utf-8", "application/octet-stream">>,
    <<"utf-8", " application/octet-stream">>,
    <<"utf-8", " Application/Octet-Stream">>,
    <<"text/html">>,
    <<"text/html", " utf-8">>,
    <<"">> }

\* 200 responses whose length and body pass every later check of Send
ContentResponses(ts) ==
    {Response(200, ct, 1, Construct(ts, Base(AgentID, IDLE, NilPayload, tok), PSKKey).data, TRUE) :
        ct \in ContentHeaders, tok \in {"", ServerToken}}

InitContent ==
    /\ New("none", "https", <<"https://h0/a", "https://h1/a">>, <<"jwe", "gob-base">>)
    /\ config = Config("none", "https", <<"https://h0/a", "https://h1/a">>,
                       <<"jwe", "gob-base">>, "")
    /\ Idle
    /\ ret = NoReturn
    /\ minted = 0
    /\ expect = NoExpect
    /\ hist = <<>>
    /\ Constructed

NextContent ==
    \/ (\E m \in AgentMessages : CallSend(m)) /\ UNCHANGED auxVars
    \/ SendIssue /\ UNCHANGED auxVars
    \/ (\E r \in ContentResponses(transformers) : SendDo(r)) /\ UNCHANGED auxVars
    \/ (\E i \in 0..2 : SendRotate(i)) /\ UNCHANGED auxVars
    \/ SendResult /\ UNCHANGED auxVars

SpecContent == InitContent /\ [][NextContent]_vars

----------------------------------------------------------------------------
(* The four-message exchange *)

\* what a server that follows the protocol feeds the authenticator
Handshake == <<EmptyBase,
               Base(AgentID, OPAQUE, Opaque("RegInit", "ok"), ""),
               Base(AgentID, OPAQUE, Opaque("RegComplete", "ok"), ""),
               Base(AgentID, OPAQUE, Opaque("AuthInit", "ok"), "")>>
HandshakeOut == <<"RegInit", "RegComplete", "AuthInit", "AuthComplete">>

\* the first k recorded steps were fed the first k messages of the handshake
Fed(k) == k <= Len(hist) /\ \A i \in 1..k : hist[i].in = Handshake[i]

\* C9: a fresh authenticator fed the empty message, RegInit, RegComplete and
\* AuthInit answers RegInit, RegComplete, AuthInit, AuthComplete in that order,
\* without error; registered turns true on the step that consumes RegInit (the
\* second), done and authenticated on the step that consumes AuthInit (the
\* fourth) and on no earlier one.
C9_HandshakeOrder ==
    \A k \in 1..4 :
        Fed(k) =>
            /\ ~hist[k].panic /\ ~hist[k].err
            /\ hist[k].out.ID = AgentID /\ hist[k].out.Type = OPAQUE
            /\ hist[k].out.Payload.tag = "opaque"
            /\ hist[k].out.Payload.Type = HandshakeOut[k]
            /\ hist[k].after.registered = (k >= 2)
            /\ hist[k].before.registered = (k >= 3)
            /\ hist[k].done = (k = 4)
            /\ hist[k].after.authenticated = (k = 4)

C9_Witness == Fed(4) /\ hist[4].done

\* C10: an inbound ReRegister while registered = false returns the empty
\* message (type 0), done = false and no error, and leaves registered,
\* authenticated and the user state as they were.
C10_ReRegisterWhileUnregistered ==
    \A k \in 1..Len(hist) :
        (/\ hist[k].in.Type = OPAQUE
         /\ hist[k].in.Payload = Opaque("ReRegister", "ok")
         /\ ~hist[k].before.registered)
        => /\ ~hist[k].panic /\ ~hist[k].err /\ ~hist[k].done
           /\ hist[k].out = EmptyBase
           /\ hist[k].out.Type = "0"
           /\ hist[k].after = hist[k].before

\* a ReRegister arrives while a registration is in flight (user state present)
C10_Witness ==
    \E k \in 1..Len(hist) :
        /\ hist[k].in.Payload = Opaque("ReRegister", "ok")
        /\ ~hist[k].before.registered
        /\ hist[k].before.opaque # NilUser
        /\ hist[k].out = EmptyBase

----------------------------------------------------------------------------
(* The client's fields *)

\* C1: once New has returned a client, and after any sequence of Authenticate,
\* Send, Deconstruct and Set calls on it, the secret is 32 or 64 bytes long,
\* never empty.
C1_SecretLength == ret.op = "New" /\ ~ret.err => secret.len \in {32, 64}

\* C2: after construction and after any sequence of Send, Authenticate and Set
\* calls 0 <= currentURL < len(URL).
C2_CurrentURLInRange == 0 <= currentURL /\ currentURL < Len(URL)

----------------------------------------------------------------------------
(* Deconstruct under two keys *)

\* Send is about to deconstruct the body of the response it holds
AtDeconstruct ==
    /\ pc = "result"
    /\ resp.kind = "response"
    /\ resp.StatusCode = 200
    /\ Accepted(resp)

RECURSIVE FallsBack(_, _, _, _)
\* some stage from the i-th on fails under key and succeeds under SHA-256(PSK),
\* the stages before it having succeeded under key
FallsBack(ts, i, data, key) ==
    /\ i <= Len(ts)
    /\ LET first == StageDeconstruct(ts[i], data, key)
           second == StageDeconstruct(ts[i], data, PSKKey)
       IN  IF first.err THEN ~second.err
           ELSE first.ret.tag # "msg" /\ FallsBack(ts, i + 1, first.ret, key)

\* the case of the dual-key fallback: an authenticated client, a body one of
\* whose stages only the PSK key opens
FallbackCase ==
    /\ AtDeconstruct
    /\ authenticated
    /\ FallsBack(transformers, 1, resp.Body, secret)

\* the body is a Message constructed under SHA-256(PSK)
FromPSK(body) == \E m \in ServerMessages : body = Construct(transformers, m, PSKKey).data

----------------------------------------------------------------------------
(* Status 401 *)

At401 == pc = "result" /\ resp.kind = "response" /\ resp.StatusCode = 401

\* C4: on a 401 Send returns no error and no messages, client.JWT becomes a
\* token minted at that moment (one that did not exist before), and secret and
\* authenticated are left as they were.
C4_Unauthorized ==
    [][At401 /\ SendResult =>
          /\ ret'.op = "Send" /\ ~ret'.err /\ ret'.msgs = <<>>
          /\ JWT' = BootstrapJWT(minted + 1)
          /\ JWT' # JWT
          /\ \A n \in 0..minted : JWT' # BootstrapJWT(n)
          /\ secret' = secret
          /\ authenticated' = authenticated]_vars

\* a Send has returned from a 401 while the client held a server-issued token
C4_Witness ==
    /\ At401
    /\ JWT = ServerToken
    /\ authenticated /\ secret = SharedSecret

----------------------------------------------------------------------------
(* The Bearer token from one request to the next *)

\* this step hands a request to Do
Issues == pc = "Send" /\ pc' = "Do"

\* C5 as stated: with no Set since request N was issued, the Bearer token of
\* request N+1 is the token of response N's message (200, non-empty token), the
\* token minted on response N (401), else the Bearer token of request N.
C5_BearerFollowsResponse ==
    [][Issues /\ expect.valid => req'.bearer = expect.bearer]_vars

\* C5 as amended: the same, when Authenticate has not been called between the
\* two requests either (it mints a bootstrap token before its first request).
C5_BearerFollowsResponseInRun ==
    [][Issues /\ expect.valid /\ ~expect.auth => req'.bearer = expect.bearer]_vars

\* request N+1 is in flight with the token response N carried, minted tokens
\* having been in use before
C5_Witness ==
    /\ pc = "Do"
    /\ expect.valid /\ ~expect.auth
    /\ req.bearer = ServerToken
    /\ minted > 0

----------------------------------------------------------------------------
(* URL rotation *)

\* the agent loop is inside Send
InSend == pc \in {"Send", "Do", "rotate", "result"}
NotRotating == AuthName = "OPAQUE" /\ secret.len # 64

\* C6: under the OPAQUE authenticator with a secret that is not 64 bytes long,
\* no step of Send changes currentURL, whatever Do returned.
C6_NoRotationDuringOpaque ==
    [][InSend /\ pc' # pc /\ NotRotating => currentURL' = currentURL]_vars

\* Send has passed the rotation with several URLs after a failed request
C6_Witness ==
    /\ pc = "result"
    /\ NotRotating
    /\ Len(URL) > 1
    /\ resp.kind = "error"

\* C7: in the rotating regime with L > 1 URLs, once Do has returned (whatever
\* it returned) every index of [0, L) can be chosen as the next currentURL, the
\* current one included, and nothing else can; with L = 1 currentURL stays.
C7_RotationOverFullRange ==
    [][pc = "rotate" /\ ~NotRotating =>
          /\ Len(URL) > 1 =>
                /\ \A i \in 0..(Len(URL) - 1) : ENABLED SendRotate(i)
                /\ currentURL' \in 0..(Len(URL) - 1)
          /\ Len(URL) = 1 => currentURL' = currentURL
          /\ pc' = "result" => resp' = resp]_vars

\* the rotation has moved currentURL although the request failed
C7_Witness ==
    /\ pc = "result"
    /\ ~NotRotating
    /\ Len(URL) > 1
    /\ resp.kind = "error"
    /\ currentURL # 0

----------------------------------------------------------------------------
(* HTTP/3 rebuild *)

AtTransportError == pc = "result" /\ resp.kind = "error"

\* the error text names one of the three QUIC conditions
QUICClosed(text) ==
    \/ Contains(text, "Application error 0x0")
    \/ Contains(text, "NO_ERROR: Handshake did not complete in time")
    \/ Contains(text, "NO_ERROR: No recent network activity")

\* C8: when Do fails, the round-tripper is replaced by a new one with no proxy,
\* JA3 or parrot if and only if the protocol is http3 and the error text
\* contains one of the three phrases (the new one holds no connection, unlike
\* one that has carried a request); otherwise it is unchanged; and Send returns
\* an error and no messages in every case.
C8_HTTP3Rebuild ==
    [][AtTransportError /\ SendResult =>
          /\ ret'.op = "Send" /\ ret'.err /\ ret'.msgs = <<>>
          /\ IF Protocol = "http3" /\ QUICClosed(resp.text)
             THEN /\ Client' = [tag |-> "client", transport |-> "http3", proxy |-> "",
                                fingerprint |-> "", used |-> FALSE]
                  /\ Client.used => Client' # Client
             ELSE Client' = Client]_vars

\* an HTTP/3 client that has carried a request sees one of the three errors
C8_Witness ==
    /\ AtTransportError
    /\ Protocol = "http3"
    /\ QUICClosed(resp.text)
    /\ Client.used

----------------------------------------------------------------------------
(* Authenticate and the empty message *)

\* what the authenticator answers to the message Authenticate holds
StepOut == AuthenticatorAuthenticate(AuthName, Authenticator, msg)

\* C11: when the authenticator's step emits a message of type 0 without error,
\* Authenticate returns nil at once: no request is built for that step and the
\* agent loop has its answer.
C11_EmptyMessageExits ==
    [][(/\ pc = "Authenticate"
        /\ AuthStep
        /\ ~StepOut.panic /\ ~StepOut.err
        /\ StepOut.out.Type = "0")
       => /\ pc' = "idle"
          /\ ret' = [op |-> "Authenticate", err |-> FALSE, msgs |-> <<>>]
          /\ req' = NoRequest
          /\ Client' = Client]_vars

\* Authenticate holds a ReRegister while a registration is in flight
C11_Witness ==
    /\ pc = "Authenticate"
    /\ AuthName = "OPAQUE"
    /\ msg.Payload = Opaque("ReRegister", "ok")
    /\ ~Authenticator.registered
    /\ Authenticator.opaque # NilUser

----------------------------------------------------------------------------
(* ReAuthenticate and ReRegister *)

\* the k-th recorded step
ReAuthenticateAt(k) ==
    hist[k].in = Base(AgentID, OPAQUE, Opaque("ReAuthenticate", "ok"), "")
ReRegisterAt(k) ==
    /\ hist[k].in.Type = OPAQUE
    /\ hist[k].in.Payload = Opaque("ReRegister", "ok")

\* C12: on an inbound ReAuthenticate with the agent's id, in every state of the
\* authenticator, registered or not, the step returns an AuthInit message with
\* done = false and leaves authenticated = false.
C12_ReAuthenticate ==
    \A k \in 1..Len(hist) :
        ReAuthenticateAt(k) =>
            /\ ~hist[k].panic /\ ~hist[k].err /\ ~hist[k].done
            /\ ~hist[k].after.authenticated
            /\ hist[k].out.Payload = Opaque("AuthInit", "ok")

\* a user state as UserRegisterInit creates it
NewUser == User(FALSE, FALSE, "nil")

\* what C13 says of the k-th step
Restarted(k) ==
    /\ ~hist[k].panic /\ ~hist[k].err /\ ~hist[k].done
    /\ ~hist[k].after.registered
    /\ hist[k].after.opaque = NewUser
    /\ hist[k].after.opaque # hist[k].before.opaque
    /\ hist[k].out.Payload = Opaque("RegInit", "ok")

\* C13 as stated: on an inbound ReRegister while registered = true the step
\* discards the user state, sets registered to false, creates a new user state
\* and returns a RegInit message with done = false.
C13_ReRegister ==
    \A k \in 1..Len(hist) :
        ReRegisterAt(k) /\ hist[k].before.registered => Restarted(k)

\* C13 as amended: the same, for a ReRegister that carries the agent's id.
C13_ReRegisterOwnID ==
    \A k \in 1..Len(hist) :
        (ReRegisterAt(k) /\ hist[k].before.registered /\ hist[k].in.ID = AgentID)
        => Restarted(k)

\* a registered authenticator has restarted its registration
C13_Witness ==
    \E k \in 1..Len(hist) :
        /\ ReRegisterAt(k) /\ hist[k].in.ID = AgentID
        /\ hist[k].before.registered
        /\ hist[k].before.opaque.regComplete
        /\ Restarted(k)

----------------------------------------------------------------------------
(* Messages that are not for this authenticator *)

\* not the empty initial message, and another agent's or not an OPAQUE one
Foreign(in) == in # EmptyBase /\ (in.ID # AgentID \/ in.Type # OPAQUE)

\* C14: every inbound message other than the empty initial one whose id is not
\* the agent's or whose type is not OPAQUE makes the step return an error with
\* done = false and leaves registered, authenticated and the user state as
\* they were, in every state of the authenticator.
C14_ForeignRejected ==
    \A k \in 1..Len(hist) :
        Foreign(hist[k].in) =>
            /\ ~hist[k].panic /\ hist[k].err /\ ~hist[k].done
            /\ hist[k].after = hist[k].before

----------------------------------------------------------------------------
(* Secret() *)

Completed(k) == hist[k].done
AskedAgain(k) ==
    /\ hist[k].in.Type = OPAQUE
    /\ hist[k].in.Payload = Opaque("ReAuthenticate", "ok")

RECURSIVE LastCompleted(_)
\* the last of the first k recorded steps that completed an AuthInit, 0 when
\* none did
LastCompleted(k) ==
    IF k = 0 THEN 0 ELSE IF Completed(k) THEN k ELSE LastCompleted(k - 1)

RECURSIVE LastAskedAgain(_)
\* the last of the first k recorded steps that was given a ReAuthenticate
LastAskedAgain(k) ==
    IF k = 0 THEN 0 ELSE IF AskedAgain(k) THEN k ELSE LastAskedAgain(k - 1)

\* no AuthInit step has completed yet, or a ReAuthenticate has come in since
\* the last one that has
BeforeDone ==
    \/ LastCompleted(Len(hist)) = 0
    \/ LastAskedAgain(Len(hist)) > LastCompleted(Len(hist))

\* C15: Secret() returns an error in every state in which authenticated is
\* false, and authenticated is false before the first AuthInit step completes
\* and from an inbound ReAuthenticate until the next AuthInit step completes.
C15_SecretNeedsAuthenticated ==
    /\ ~Authenticator.authenticated =>
           OpaqueSecret(Authenticator).err /\ ~OpaqueSecret(Authenticator).panic
    /\ BeforeDone => OpaqueSecret(Authenticator).err

\* an authenticated agent has been asked to authenticate again and has
\* answered AuthInit
C15_Witness ==
    /\ Len(hist) > 1
    /\ hist[Len(hist)].in = Base(AgentID, OPAQUE, Opaque("ReAuthenticate", "ok"), "")
    /\ hist[Len(hist)].before.authenticated
    /\ hist[Len(hist)].out.Payload = Opaque("AuthInit", "ok")
    /\ OpaqueSecret(Authenticator).err

----------------------------------------------------------------------------
(* Send against a concurrent Set *)

\* C16: under every interleaving of Send with a concurrent Set("addr"), the
\* index Send uses to read URL (lines 405 and 421) is within the list that is
\* current at the moment of the read.
C16_ReadWithinList == pc = "Send" => currentURL < Len(URL)

\* this step puts another round-tripper in client.Client
Replaces == Client' # Client /\ (Client' = NoClient \/ ~Client'.used)

\* C17: every replacement of the round-tripper, by Set or by Send's HTTP/3
\* rebuild, is a step of the goroutine that holds the client's mutex.
C17_SwapUnderMutex == [][Replaces => locked /\ SetRun]_vars

\* C18: the value of a Set("jwt", v) that completed before a Send started is
\* the Bearer token of that Send, and the value of one that completed while a
\* Send was in flight is the Bearer token of the next Send.
C18_SetJWTVisible == [][Issues /\ pending # "" => req'.bearer = pending]_vars

----------------------------------------------------------------------------
(* The four-message exchange through Client.Authenticate *)

\* Authenticate has returned
AuthenticateReturned == pc = "idle" /\ ret.op = "Authenticate"

\* it has returned nil after the four Sends, the client authenticated under the
\* 64-byte secret
HandshakeDone ==
    /\ AuthenticateReturned
    /\ ~ret.err
    /\ sent = HandshakeOut
    /\ authenticated
    /\ secret = SharedSecret /\ secret.len = 64

\* C19: with the OPAQUE authenticator in its fresh state and a server that
\* answers every request with 200 and the matching reply, Authenticate
\* eventually returns, without error, after exactly the four Sends RegInit,
\* RegComplete, AuthInit, AuthComplete in that order, with authenticated = true
\* and a 64-byte secret.
C19_FourSends ==
    /\ <>[]HandshakeDone
    /\ [](AuthenticateReturned => HandshakeDone)
    /\ [](/\ Len(sent) <= 4
          /\ \A i \in 1..Len(sent) : sent[i] = HandshakeOut[i])

\* the exchange has completed over HTTP/3 with several URLs, and the rotation,
\* held back until then, has moved the client to another URL
C19_Witness ==
    /\ HandshakeDone
    /\ Protocol = "http3"
    /\ Len(URL) = 3
    /\ currentURL # 0

----------------------------------------------------------------------------
(* New and the Transformers string *)

\* New has returned
NewReturned == ret.op = "New"

\* some element of the Transformers string is not one of the ten identifiers,
\* whatever its case
UnknownTransform(cfg) ==
    \E i \in 1..Len(cfg.Transformers) : ToLower(cfg.Transformers[i]) \notin StageNames

\* C20: for every Transformers string one of whose comma-separated elements is
\* not one of the ten identifiers compared case-insensitively, the empty string
\* included, New returns an error and adds no client to the repository.
C20_UnknownTransformRejected ==
    NewReturned /\ UnknownTransform(config) => ret.err /\ registry = 0 /\ pc = "failed"

\* New was given the empty Transformers string with an otherwise sound Config
C20_Witness ==
    /\ NewReturned
    /\ config.Transformers = <<"">>
    /\ ToLower(config.AuthPackage) = "opaque" /\ config.Protocol = "https"
    /\ config.Padding = ""
    /\ ret.err

----------------------------------------------------------------------------
(* Client.Set on the client New returned *)

\* C21: once New has returned a client, and after any sequence of
\* Set("paddingmax", v) calls on it, failing ones included, PaddingMax >= 0.
C21_PaddingMaxNotNegative == ret.op = "New" /\ ~ret.err => PaddingMax >= 0

\* the round-tripper getClient builds for the protocol alone
DefaultClient == getClient(Protocol, Proxy, "", "").client

\* C22: after Set("ja3", "") returns without error the client's round-tripper
\* is the default transport of the configured protocol, whatever the other
\* fields hold, Parrot included.
C22_EmptyJA3RestoresDefault ==
    [][SetConstructed("ja3", "") /\ ~SetFields(ThisClient, "ja3", "").err
          => Client' = DefaultClient]_vars

----------------------------------------------------------------------------
(* The pipeline *)

\* Deconstruct has returned, having been called with the data Construct
\* returned for pipe.given under the same secret
RoundTripDone == pc = "idle" /\ ret.op = "Deconstruct" /\ pipe.own

----------------------------------------------------------------------------
(* The keys Authenticate's requests are built under *)

RECURSIVE KeyOf(_)
\* the key the outermost keyed stage of the data was given
KeyOf(data) ==
    IF data.tag # "enc" THEN NilKey
    ELSE IF data.stage \in Authenticated \cup Stream THEN data.key
    ELSE KeyOf(data.inner)

\* the key line 668 fetches, or the one the client had when it is empty
DoneKey ==
    LET s == AuthenticatorSecret(AuthName, Authenticator)
    IN  IF s.key.len > 0 THEN s.key ELSE PSKKey

\* C24: the step that enters Authenticate leaves secret = SHA-256(PSK),
\* authenticated = false and JWT a bootstrap token minted by that step, whatever
\* they were; every request Authenticate issues while the authenticator has not
\* reported done is constructed under SHA-256(PSK), and the one that carries the
\* done step's output under the authenticator's secret.
C24_ResetThenPSKUntilDone ==
    [][/\ pc = "idle" /\ pc' = "Authenticate" =>
            /\ secret' = PSKKey
            /\ ~authenticated'
            /\ minted' = minted + 1
            /\ JWT' = BootstrapJWT(minted')
            /\ JWT' # JWT
       /\ pc' = "Do" /\ caller' = "auth" =>
            KeyOf(req'.data) = IF done' THEN DoneKey' ELSE PSKKey]_vars

\* a second Authenticate, entered with the 64-byte secret of the first, has
\* issued its first request
C24_Witness ==
    /\ pc = "Do" /\ caller = "auth" /\ ~done
    /\ minted = 2
    /\ Authenticator.authenticated
    /\ KeyOf(req.data) = PSKKey

\* C25: when the authenticator's step reports done and its Secret() returns an
\* empty key without error (the "none" authenticator), that iteration of
\* Authenticate sets authenticated to true and leaves the secret the 32-byte
\* SHA-256(PSK).
C25_EmptyKeyKeepsPSK ==
    [][LET r == AuthenticatorAuthenticate(AuthName, Authenticator, msg)
           s == AuthenticatorSecret(AuthName, r.a)
       IN  /\ pc = "Authenticate" /\ pc' # "Authenticate"
           /\ ~r.panic /\ ~r.err /\ r.out.Type # "0" /\ r.authenticated
           /\ ~s.panic /\ ~s.err /\ s.key.len = 0
           => /\ authenticated'
              /\ secret' = PSKKey /\ secret'.len = 32
              /\ pc' = "Send" /\ done']_vars

\* Authenticate with the "none" authenticator is about to send the done
\* step's output
C25_Witness ==
    /\ AuthName = "none"
    /\ pc = "Send" /\ caller = "auth" /\ done
    /\ authenticated /\ secret = PSKKey

\* the calls that are not the second call of line 730
FirstCalls(calls) == SelectSeq(calls, LAMBDA c : ~c.retry)

\* the secret the client holds when the k-th recorded call of a Deconstruct is
\* made: the one it held at the call of Deconstruct, or SHA-256(PSK) once a
\* second call has succeeded
SecretAt(k) ==
    IF \E j \in 1..(k - 1) : pipe.calls[j].retry /\ pipe.calls[j].result # "error"
    THEN PSKKey
    ELSE pipe.secret

\* C26: Deconstruct calls the stages in list order starting with the first,
\* each with the secret the client holds at that moment; it returns the Message
\* as soon as a stage yields one, no later stage being called, and returns an
\* error when the last stage has been called and none yielded a Message.
\* Construct calls the same stages in the reverse order, each with the secret,
\* and gives the Message to the last stage of the list only.
C26_StageOrder ==
    /\ pipe.op = "Deconstruct" =>
          LET calls == pipe.calls
              p == FirstCalls(calls)
              n == Len(calls)
          IN  /\ \A k \in 1..Len(p) : p[k].i = k /\ p[k].arg = "data"
              /\ \A k \in 1..n :
                    /\ ~calls[k].retry => calls[k].key = SecretAt(k)
                    /\ calls[k].retry => k > 1 /\ calls[k - 1].result = "error"
                                         /\ calls[k - 1].i = calls[k].i
                    /\ calls[k].result = "Message" => k = n
              /\ pc = "Deconstruct" => n = 0 \/ calls[n].result = "data"
              /\ pc = "idle" =>
                    /\ ret.op = "Deconstruct" /\ n > 0
                    /\ calls[n].result = "Message" <=> ~ret.err
                    /\ calls[n].result = "data" => calls[n].i = Len(transformers)
              /\ \A k \in 1..n : calls[k].result = "data" /\ calls[k].i = Len(transformers)
                                    => pc = "idle" /\ ret.err
    /\ pipe.op = "Construct" =>
          LET calls == pipe.calls
          IN  /\ \A k \in 1..Len(calls) :
                    /\ calls[k].i = Len(transformers) - k + 1
                    /\ calls[k].key = secret
                    /\ ~calls[k].retry
                    /\ calls[k].arg = "msg" <=> calls[k].i = Len(transformers)
              /\ pc = "built" =>
                    /\ Len(calls) = Len(transformers)
                    /\ \A k \in 1..Len(calls) : calls[k].result = "data"

\* the first of two stages yielded the Message and the second was not called
C26_Witness ==
    /\ pipe.op = "Deconstruct" /\ pc = "idle" /\ ~ret.err
    /\ Len(transformers) = 2
    /\ Len(pipe.calls) = 1 /\ pipe.calls[1].i = 1

----------------------------------------------------------------------------
(* The Content-Type check of Send *)

\* the header names application/octet-stream, in any letter case, as one of
\* its comma-separated elements; strings.Split leaves the blank that follows a
\* comma at the head of the next element
HasOctetToken(elems) ==
    \E i \in 1..Len(elems) :
        ToLower(elems[i]) \in {"application/octet-stream", " application/octet-stream"}

\* C27: a 200 response whose length and body are sound is accepted by Send
\* whenever its Content-Type names application/octet-stream, in any letter case
\* and at any position of a comma-separated list, and is rejected with an error
\* only when it does not.
C27_OctetTokenAccepted ==
    [][pc = "result" /\ pc' = "idle" /\ resp.kind = "response" /\ resp.StatusCode = 200
          => (ret'.err <=> ~HasOctetToken(resp.ContentType))]_vars

----------------------------------------------------------------------------
(* Authenticate returning an error *)

\* C28: when Authenticate returns an error the client is not marked
\* authenticated and its secret is SHA-256(PSK), also when the Send that
\* carries the final handshake message is the step that failed.
C28_ErrorLeavesUnauthenticated ==
    pc = "idle" /\ ret.op = "Authenticate" /\ ret.err
        => ~authenticated /\ secret = PSKKey

----------------------------------------------------------------------------
(* Deconstruct returning an error *)

\* C29: when Deconstruct returns an error the client's secret and its
\* authenticated flag are what they were when it was called, whatever the
\* length of the pipeline.
C29_ErrorKeepsSecret ==
    pc = "idle" /\ ret.op = "Deconstruct" /\ ret.err
        => secret = pipe.secret /\ authenticated = pipe.authenticated

----------------------------------------------------------------------------
(* What the loop of Authenticate hands to the authenticator *)

\* C30: whenever the loop of Authenticate goes back to the authenticator after
\* a Send, the message it passes is one the server sent in reply to that Send,
\* never the message the agent itself has just sent.
C30_NextStepGetsReply ==
    [][pc = "Sent" /\ pc' = "Authenticate"
          => Len(ret.msgs) > 0 /\ msg' = ret.msgs[1]]_vars

----------------------------------------------------------------------------
(* The OPAQUE authenticator's flags and its user state *)

\* C31: in every state of the OPAQUE authenticator, authenticated implies
\* registered and a user state that holds a completed key exchange, so that
\* Secret() returns a key whenever authenticated is set.
C31_AuthenticatedHasKey ==
    AuthName = "OPAQUE" /\ Authenticator.authenticated
        => /\ Authenticator.registered
           /\ Authenticator.opaque # NilUser
           /\ Authenticator.opaque.Kex = "done"
           /\ ~OpaqueSecret(Authenticator).panic
           /\ OpaqueSecret(Authenticator).key = SharedSecret

\* C32: for inbound OPAQUE messages with the agent's id, in any order and with
\* or without a payload, every step of the authenticator returns (a message
\* or an error): no step acts on user state that an earlier step has not
\* created.
C32_StepsReturn ==
    \A i \in 1..Len(hist) :
        hist[i].in.Type = OPAQUE /\ hist[i].in.ID = AgentID => ~hist[i].panic

----------------------------------------------------------------------------
(* A call of Set that returns an error *)

\* C33: a call of Set that returns an error, whatever the key, leaves every
\* field of the client and its round-tripper as they were before the call; the
\* round-tripper is still present.
C33_FailedSetChangesNothing ==
    [][\A c \in NewSetCalls :
          SetConstructed(c[1], c[2]) /\ SetFields(ThisClient, c[1], c[2]).err
              => ThisClient' = ThisClient /\ Client' # NoClient]_vars

----------------------------------------------------------------------------
(* The URL of a run of Authenticate *)

\* C34: with the OPAQUE authenticator, several URLs and no Set, every request
\* of one run of Authenticate, from RegInit up to and including AuthComplete,
\* goes to the URL the client pointed at when the run began, and currentURL
\* changes only once the request of the final (done) message has been issued.
C34_OneURLPerRun ==
    /\ [](caller = "auth" /\ req # NoRequest => req.url = pipe.url)
    /\ [][caller = "auth" /\ currentURL' # currentURL
             => pc = "rotate" /\ done /\ secret = SharedSecret]_vars

\* a run has returned nil after AuthComplete and the rotation, held back until
\* then, has moved the client to another URL than the one of the run
C34_Witness ==
    /\ pc = "idle" /\ ret.op = "Authenticate" /\ ~ret.err
    /\ pipe.op = "Authenticate"
    /\ authenticated /\ secret = SharedSecret
    /\ URL[currentURL + 1] # pipe.url

====
